---- MODULE Spec2Model ----
(***************************************************************************)
(* A model of the QR image compositor of qrcreator.link                    *)
(* (internal/handlers/qr.go): parameter parsing, the raster pipeline of    *)
(* generatePNGQR (anti-alias cleanup, resize, logo, padding, frame,        *)
(* rounded carving) and the response it sends.                             *)
(*                                                                         *)
(* A bitmap is kept as the stage that produced it together with the bitmap *)
(* that stage read (field src); At(img, x, y) is the pixel the stage's     *)
(* loop writes at (x, y).  A colour is a record [r, g, b, a] of 8-bit      *)
(* channels (color.RGBA).  A string parameter is a sequence of characters. *)
(***************************************************************************)
EXTENDS Integers, Sequences, FiniteSets, TLC

VARIABLES
    pc,                 \* where the handler (or the function under study) stands
    req,                \* the request: query parameters as the handler resolves them
    file,               \* the request's temporary PNG file
    originalSize,       \* generatePNGQR's originalSize
    didPreviewPreScale, \* generatePNGQR's didPreviewPreScale
    resp,               \* what has been written to the HTTP response
    failed,             \* has a step of this request returned an error
    arg,                \* input of the function under study
    ret                 \* its result

handlerVars == <<req, file, originalSize, didPreviewPreScale, resp, failed>>

vars == <<pc, handlerVars, arg, ret>>

Null == [kind |-> "null"]

(***************************************************************************)
(* Colours                                                                 *)
(***************************************************************************)
RGBA(r, g, b, a) == [r |-> r, g |-> g, b |-> b, a |-> a]

Transparent == RGBA(0, 0, 0, 0)
White       == RGBA(255, 255, 255, 255)
Black       == RGBA(0, 0, 0, 255)

(***************************************************************************)
(* Strings as sequences of characters                                      *)
(***************************************************************************)
UpperLetters == <<"A","B","C","D","E","F","G","H","I","J","K","L","M",
                  "N","O","P","Q","R","S","T","U","V","W","X","Y","Z">>
LowerLetters == <<"a","b","c","d","e","f","g","h","i","j","k","l","m",
                  "n","o","p","q","r","s","t","u","v","w","x","y","z">>
HexDigits    == <<"0","1","2","3","4","5","6","7","8","9",
                  "a","b","c","d","e","f">>

\* strings.ToLower, one character
ToLowerChar(c) ==
    IF \E i \in 1..26 : UpperLetters[i] = c
    THEN LowerLetters[CHOOSE i \in 1..26 : UpperLetters[i] = c]
    ELSE c

\* strings.ToLower
ToLower(s) == [i \in 1..Len(s) |-> ToLowerChar(s[i])]

\* strings.TrimPrefix(s, "#")
TrimPrefixHash(s) ==
    IF Len(s) >= 1 /\ s[1] = "#" THEN SubSeq(s, 2, Len(s)) ELSE s

\* the value of one base-16 digit, -1 when c is no digit (strconv.ParseUint
\* then returns an error)
HexVal(c) ==
    IF \E i \in 1..16 : HexDigits[i] = ToLowerChar(c)
    THEN (CHOOSE i \in 1..16 : HexDigits[i] = ToLowerChar(c)) - 1
    ELSE -1

\* strconv.ParseUint(s, 16, 8) of a two-character string: -1 is an error
ParseHexByte(s) ==
    IF HexVal(s[1]) < 0 \/ HexVal(s[2]) < 0 THEN -1
    ELSE 16 * HexVal(s[1]) + HexVal(s[2])

StrTransparent == <<"t","r","a","n","s","p","a","r","e","n","t">>

\* A plausible slip: the comparison with "transparent" made case-sensitive.
parseColorParamCaseSensitive(param, defaultColor) ==
    IF param = <<>> THEN defaultColor
    ELSE IF param = StrTransparent THEN Transparent
    ELSE LET p == TrimPrefixHash(param) IN
         IF Len(p) # 6 THEN defaultColor
         ELSE LET r == ParseHexByte(SubSeq(p, 1, 2))
                  g == ParseHexByte(SubSeq(p, 3, 4))
                  b == ParseHexByte(SubSeq(p, 5, 6))
              IN IF r < 0 \/ g < 0 \/ b < 0 THEN defaultColor
                 ELSE RGBA(r, g, b, 255)

\* parseColorParam (qr.go 618-647)
parseColorParam(param, defaultColor) ==
    IF param = <<>> THEN defaultColor
    ELSE IF ToLower(param) = StrTransparent THEN Transparent
    ELSE LET p == TrimPrefixHash(param) IN
         IF Len(p) # 6 THEN defaultColor
         ELSE LET r == ParseHexByte(SubSeq(p, 1, 2))
                  g == ParseHexByte(SubSeq(p, 3, 4))
                  b == ParseHexByte(SubSeq(p, 5, 6))
              IN IF r < 0 \/ g < 0 \/ b < 0 THEN defaultColor
                 ELSE RGBA(r, g, b, 255)

(***************************************************************************)
(* Arithmetic the code does in float64                                     *)
(***************************************************************************)
Max(a, b) == IF a > b THEN a ELSE b
Min(a, b) == IF a < b THEN a ELSE b

\* min4 (qr.go 28-35)
min4(a, b, c, d) == Min(Min(a, b), Min(c, d))

\* int(math.Round(float64(n) * pct/100)) for n >= 0: half away from zero
RoundPct(n, pct) == (n * pct + 50) \div 100

\* int(math.Ceil(float64(n) * pct/100)) for n >= 0
CeilPct(n, pct) == (n * pct + 99) \div 100

\* The binary exponent of the float64 quotient T/W: 2^E <= T/W < 2^(E+1)
FloatExp(T, W) ==
    CHOOSE E \in -12..12 :
        IF E >= 0 THEN W * 2^E <= T /\ T < W * 2^(E+1)
        ELSE W <= T * 2^(-E) /\ T * 2^(-E-1) < W

RECURSIVE MulPow2Mod(_, _, _)
\* (v * 2^n) mod W
MulPow2Mod(v, n, W) == IF n = 0 THEN v % W ELSE MulPow2Mod((2 * v) % W, n - 1, W)

\* The rounding error of scale := float64(T)/float64(W), in units of 1/W of
\* the last place of its 53-bit significand: positive when scale was rounded
\* up, 0 when T/W is a float64.
ScaleRoundErr(T, W) ==
    LET t == MulPow2Mod(T % W, 52 - FloatExp(T, W), W)
    IN IF t = 0 THEN 0 ELSE IF 2 * t < W THEN -t ELSE W - t

\* The e with 2^e < k <= 2^(e+1), for k >= 1
ExpBelow(k) == CHOOSE e \in -1..12 : (IF e < 0 THEN 1 < 2 * k ELSE 2^e < k) /\ k <= 2^(e+1)

\* A plausible slip: the source index taken one pixel further.
SrcIndexOffByOne(x, T, W) == (x * W) \div T + 1

\* int(float64(x) / scale) with scale := float64(T)/float64(W), as float64
\* computes it.  Where x*W/T is no integer the float64 quotient has the same
\* integer part as the exact one; where it is an integer k >= 1 and scale was
\* rounded up, the quotient k/(1+d) rounds to the float64 below k when its
\* deficit exceeds half the spacing of the floats below k, and int() then
\* gives k-1.
SrcIndex(x, T, W) ==
    LET q == (x * W) \div T IN
    IF x = 0 \/ (x * W) % T # 0 THEN q
    ELSE LET r  == ScaleRoundErr(T, W)
             sh == FloatExp(T, W) - ExpBelow(q)
         IN IF r <= 0 THEN q
            ELSE IF (IF sh >= 0 THEN 2 * q * r * 2^sh > T
                                ELSE 2 * q * r > T * 2^(-sh))
                 THEN q - 1 ELSE q

(***************************************************************************)
(* Gradient colours                                                        *)
(***************************************************************************)
\* A plausible slip: the difference taken in 8 bits before the scaling, so a
\* falling channel wraps around.
LerpChannelWrapped(c1, c2, num, den) == ((c1 * den + num * ((c2 - c1) % 256)) \div den) % 256

\* One channel of lerpColor: uint8(c1 + t*(c2 - c1)) with t = num/den in [0,1]
LerpChannel(c1, c2, num, den) == (c1 * den + num * (c2 - c1)) \div den

\* lerpColor (qr.go 1871-1879), t = num/den
lerpColor(color1, color2, num, den) ==
    RGBA(LerpChannel(color1.r, color2.r, num, den),
         LerpChannel(color1.g, color2.g, num, den),
         LerpChannel(color1.b, color2.b, num, den),
         255)

\* A plausible slip: t is not clamped to [0, 1].
interpolateGradientColorUnclamped(num, den, gradientStart, gradientMiddle, gradientEnd) ==
    IF 2 * num <= den
    THEN lerpColor(gradientStart, gradientMiddle, 2 * num, den)
    ELSE lerpColor(gradientMiddle, gradientEnd, 2 * num - den, den)

\* interpolateGradientColor (qr.go 1849-1869), t = num/den, den > 0
interpolateGradientColor(num, den, gradientStart, gradientMiddle, gradientEnd) ==
    LET n == IF num < 0 THEN 0 ELSE IF num > den THEN den ELSE num IN
    IF 2 * n <= den
    THEN lerpColor(gradientStart, gradientMiddle, 2 * n, den)
    ELSE lerpColor(gradientMiddle, gradientEnd, 2 * n - den, den)

(***************************************************************************)
(* The anti-alias cleaner                                                  *)
(***************************************************************************)
\* A plausible slip: the light test applied to semi-transparent pixels too,
\* so a dark semi-transparent pixel survives.
isAntiAliasingArtifactLightOnly(c, fgColor) ==
    IF c.a = 0 THEN FALSE
    ELSE IF c.a = 255 /\ c.r = fgColor.r /\ c.g = fgColor.g /\ c.b = fgColor.b THEN FALSE
    ELSE (c.r > 200 /\ c.g > 200 /\ c.b > 200)
         /\ (c.r # fgColor.r \/ c.g # fgColor.g \/ c.b # fgColor.b)

\* isAntiAliasingArtifact (qr.go 2173-2196); c is the pixel (r, g, b, a)
isAntiAliasingArtifact(c, fgColor) ==
    IF c.a = 0 THEN FALSE
    ELSE IF c.a = 255 /\ c.r = fgColor.r /\ c.g = fgColor.g /\ c.b = fgColor.b THEN FALSE
    ELSE IF c.a < 255 THEN TRUE
    ELSE IF (c.r > 200 /\ c.g > 200 /\ c.b > 200)
            /\ (c.r # fgColor.r \/ c.g # fgColor.g \/ c.b # fgColor.b) THEN TRUE
    ELSE FALSE

\* The body of cleanupAntiAliasing's pixel loop (qr.go 2140-2157)
CleanPixel(c, fgColor) ==
    IF isAntiAliasingArtifact(c, fgColor) THEN Transparent ELSE c

(***************************************************************************)
(* Rounded rectangles                                                      *)
(***************************************************************************)
\* The four corner circles of both hit tests
InCornerCircle(x, y, left, top, right, bottom, r) ==
    \/ (x - (left + r)) * (x - (left + r)) + (y - (top + r)) * (y - (top + r)) <= r * r
    \/ (x - (right - r)) * (x - (right - r)) + (y - (top + r)) * (y - (top + r)) <= r * r
    \/ (x - (left + r)) * (x - (left + r)) + (y - (bottom - r)) * (y - (bottom - r)) <= r * r
    \/ (x - (right - r)) * (x - (right - r)) + (y - (bottom - r)) * (y - (bottom - r)) <= r * r

\* insideRoundedRect of applySimpleRoundedFrame (qr.go 1686-1723)
insideRoundedRect(x, y, left, top, right, bottom, r) ==
    IF r <= 0 THEN x >= left /\ x <= right /\ y >= top /\ y <= bottom
    ELSE \/ (x >= left + r /\ x <= right - r /\ y >= top /\ y <= bottom)
         \/ (y >= top + r /\ y <= bottom - r /\ x >= left /\ x <= right)
         \/ InCornerCircle(x, y, left, top, right, bottom, r)

\* insideRoundedRect of addFrameToQRFile (qr.go 1250-1282): an empty box
\* holds no point
insideRoundedRectFrame(x, y, left, top, right, bottom, r) ==
    IF left > right \/ top > bottom THEN FALSE
    ELSE insideRoundedRect(x, y, left, top, right, bottom, r)

\* clamp of the rounded double frame (qr.go 1462)
clamp(v, lo, hi) == IF v < lo THEN lo ELSE IF v > hi THEN hi ELSE v

(***************************************************************************)
(* The frame band of addFrameToQRFile.  f is the framed bitmap:            *)
(* f.w, f.h its size (newWidth, newHeight), f.fw the frame width,          *)
(* f.rounded and f.pattern the frame type, f.bg and f.frameColor the       *)
(* colours, f.useGradient with f.gs, f.gm, f.ge the gradient stops.        *)
(***************************************************************************)
\* The colour the new image starts with (qr.go 1202-1212)
FrameFill(f) == IF f.bg.a # 0 THEN f.bg ELSE Transparent

\* calculateFrameColor (qr.go 1215-1247):
\* t = (x/newWidth + (1 - y/newHeight)) / 2
calculateFrameColor(f, x, y) ==
    IF ~f.useGradient THEN f.frameColor
    ELSE interpolateGradientColor(x * f.h + (f.h - y) * f.w, 2 * f.w * f.h,
                                  f.gs, f.gm, f.ge)

\* isFrameArea (qr.go 1287), inFrame (qr.go 1748)
isFrameArea(f, x, y) ==
    x < f.fw \/ x >= f.w - f.fw \/ y < f.fw \/ y >= f.h - f.fw

\* the solid corner squares of the dashed and irregular patterns
InCornerSquare(f, x, y) ==
    \/ (x < f.fw /\ y < f.fw)
    \/ (x >= f.w - f.fw /\ y < f.fw)
    \/ (x < f.fw /\ y >= f.h - f.fw)
    \/ (x >= f.w - f.fw /\ y >= f.h - f.fw)

OnHorizontalEdge(f, x, y) ==
    (y < f.fw \/ y >= f.h - f.fw) /\ x >= f.fw /\ x < f.w - f.fw

OnVerticalEdge(f, x, y) ==
    (x < f.fw \/ x >= f.w - f.fw) /\ y >= f.fw /\ y < f.h - f.fw

\* case "irregular" (qr.go 1299-1329): is the pixel painted
IrregularDash(v) == 4 + (((v * 13) % 17) % 8)
IrregularGap(v)  == 2 + (((v * 13) % 17) % 4)
IrregularPainted(f, x, y) ==
    \/ InCornerSquare(f, x, y)
    \/ /\ OnHorizontalEdge(f, x, y)
       /\ (x - f.fw) % (IrregularDash(x) + IrregularGap(x)) < IrregularDash(x)
    \/ /\ OnVerticalEdge(f, x, y)
       /\ (y - f.fw) % (IrregularDash(y) + IrregularGap(y)) < IrregularDash(y)

\* case "dotted" (qr.go 1330-1373): is the pixel inside a punched hole
perfSpacing(fw) == Max(6, fw)
perfRadius(fw)  == Max(2, fw \div 3)
DottedHole(f, x, y) ==
    LET sp  == perfSpacing(f.fw)
        rad == perfRadius(f.fw)
    IN IF y < f.fw \/ y >= f.h - f.fw
       THEN /\ x % sp < rad * 2
            /\ LET centerX == (x \div sp) * sp + rad
                   centerY == IF y >= f.h - f.fw THEN f.h - f.fw \div 2
                              ELSE f.fw \div 2
               IN (x - centerX) * (x - centerX) + (y - centerY) * (y - centerY)
                      <= rad * rad
       ELSE IF x < f.fw \/ x >= f.w - f.fw
       THEN /\ y % sp < rad * 2
            /\ LET centerY == (y \div sp) * sp + rad
                   centerX == IF x >= f.w - f.fw THEN f.w - f.fw \div 2
                              ELSE f.fw \div 2
               IN (x - centerX) * (x - centerX) + (y - centerY) * (y - centerY)
                      <= rad * rad
       ELSE FALSE

\* A plausible slip: the dashes are measured from the canvas edge instead of
\* from the corner square.
DashedPaintedFromEdge(f, x, y) ==
    \/ InCornerSquare(f, x, y)
    \/ (OnHorizontalEdge(f, x, y) /\ x % (Max(6, f.fw * 3) + Max(6, f.fw * 3) \div 2) < Max(6, f.fw * 3))
    \/ (OnVerticalEdge(f, x, y) /\ y % (Max(6, f.fw * 3) + Max(6, f.fw * 3) \div 2) < Max(6, f.fw * 3))

\* case "dashed" (qr.go 1374-1402): is the pixel painted
dashLength(fw) == Max(6, fw * 3)
DashedPainted(f, x, y) ==
    LET dash  == dashLength(f.fw)
        total == dash + dash \div 2
    IN \/ InCornerSquare(f, x, y)
       \/ (OnHorizontalEdge(f, x, y) /\ (x - f.fw) % total < dash)
       \/ (OnVerticalEdge(f, x, y) /\ (y - f.fw) % total < dash)

\* A plausible slip: the rounded variant narrows the outer stroke without
\* widening the gap.
DoubleBandsGapNotWidened(fw, rounded) ==
    LET outer0 == Max(2, RoundPct(fw, 40))
        gap0   == Max(1, RoundPct(fw, 20))
        inner0 == Max(1, fw - outer0 - gap0)
        delta  == Max(1, RoundPct(fw, 10))
    IN [outer |-> IF outer0 > delta + 1 THEN outer0 - delta ELSE outer0,
        gap |-> gap0, inner |-> inner0]

\* case "double" (qr.go 1403-1448): the widths of the outer stroke, the gap
\* and the inner stroke after all rebalancing
DoubleBands(fw, rounded) ==
    LET outer0 == Max(2, RoundPct(fw, 40))
        gap0   == Max(1, RoundPct(fw, 20))
        inner0 == Max(1, fw - outer0 - gap0)
        delta  == Max(1, RoundPct(fw, 10))
        \* move a small delta from the gap to the inner band
        gap1   == IF gap0 > delta THEN gap0 - delta ELSE 1
        inner1 == IF gap0 > delta THEN inner0 + delta
                  ELSE IF gap0 > 1 THEN inner0 + (gap0 - 1) ELSE inner0
    IN IF rounded
       THEN IF outer0 > delta + 1
            THEN [outer |-> outer0 - delta, gap |-> gap1 + delta, inner |-> inner1]
            ELSE [outer |-> outer0, gap |-> gap1, inner |-> inner1]
       ELSE LET s == IF gap1 > delta
                     THEN [outer |-> outer0 + delta, gap |-> gap1 - delta, inner |-> inner1]
                     ELSE IF gap1 > 1
                     THEN [outer |-> outer0 + (gap1 - 1), gap |-> 1, inner |-> inner1]
                     ELSE IF inner1 > 1
                     THEN [outer |-> outer0 + 1, gap |-> gap1, inner |-> inner1 - 1]
                     ELSE [outer |-> outer0, gap |-> gap1, inner |-> inner1]
            IN IF s.inner > 2
               THEN [outer |-> s.outer, gap |-> s.gap + 1, inner |-> s.inner - 1]
               ELSE s

\* case "double", rounded (qr.go 1450-1497): "outer", "gap", "inner" or "none"
DoubleRoundedBand(f, x, y) ==
    LET b      == DoubleBands(f.fw, TRUE)
        innerL == f.fw
        innerT == f.fw
        innerR == f.w - 1 - f.fw
        innerB == f.h - 1 - f.fw
        baseR  == RoundPct(f.fw, 55)
        offIn  == b.inner
        offGap == b.inner + b.gap
        offOut == b.inner + b.gap + b.outer
        In(off) == insideRoundedRectFrame(x, y,
                       clamp(innerL - off, 0, f.w - 1), clamp(innerT - off, 0, f.h - 1),
                       clamp(innerR + off, 0, f.w - 1), clamp(innerB + off, 0, f.h - 1),
                       baseR + off)
        inInnerCore == insideRoundedRectFrame(x, y, innerL, innerT, innerR, innerB, baseR)
    IN IF In(offOut) /\ ~In(offGap) THEN "outer"
       ELSE IF In(offGap) /\ ~In(offIn) THEN "gap"
       ELSE IF In(offIn) /\ ~inInnerCore THEN "inner"
       ELSE "none"

\* case "double", straight (qr.go 1498-1508)
DoubleStraightBand(f, x, y) ==
    LET b        == DoubleBands(f.fw, FALSE)
        edgeDist == min4(x, y, f.w - 1 - x, f.h - 1 - y)
    IN IF edgeDist < b.outer THEN "outer"
       ELSE IF edgeDist < b.outer + b.gap THEN "gap"
       ELSE IF edgeDist < b.outer + b.gap + b.inner THEN "inner"
       ELSE "none"

\* case "diagonal" (qr.go 1509-1526)
lineSpacing(fw) == Max(2, fw \div 2)

\* A plausible slip: the stroke is not thickened to 2 pixels.
thicknessNotThickened(fw) == Max(1, Min(fw \div 5, lineSpacing(fw) - 1))

thickness(fw) ==
    LET t == Max(2, fw \div 5)
    IN IF t >= lineSpacing(fw) THEN Max(1, lineSpacing(fw) - 1) ELSE t
DiagonalPainted(f, x, y) == (x + y) % lineSpacing(f.fw) < thickness(f.fw)

\* case "grid" (qr.go 1527-1541)
gridSize(fw) == Max(2, fw \div 3)
GridPainted(f, x, y) ==
    ((x \div gridSize(f.fw)) + (y \div gridSize(f.fw))) % 2 = 0

\* The switch on basePattern (qr.go 1298-1545): the colour of a band pixel
\* once the pattern is drawn
BandPixel(f, x, y) ==
    LET paint == calculateFrameColor(f, x, y)
        fill  == FrameFill(f)
    IN CASE f.pattern = "irregular" ->
              IF IrregularPainted(f, x, y) THEN paint ELSE fill
         [] f.pattern = "dotted" ->
              IF DottedHole(f, x, y) THEN f.bg ELSE paint
         [] f.pattern = "dashed" ->
              IF DashedPainted(f, x, y) THEN paint ELSE fill
         [] f.pattern = "double" ->
              LET band == IF f.rounded THEN DoubleRoundedBand(f, x, y)
                          ELSE DoubleStraightBand(f, x, y)
              IN IF band \in {"outer", "inner"} THEN paint
                 ELSE IF band = "gap" THEN f.bg ELSE fill
         [] f.pattern = "diagonal" ->
              IF DiagonalPainted(f, x, y) THEN paint ELSE fill
         [] f.pattern = "grid" ->
              IF GridPainted(f, x, y) THEN paint ELSE fill
         [] OTHER -> paint

(***************************************************************************)
(* Rounded carving: applySimpleRoundedFrame (qr.go 1668-1766)              *)
(***************************************************************************)
innerRadius(fw) == Max(2, RoundPct(fw, 55))
outerRadius(fw) == innerRadius(fw) + fw
cutWidth(fw)    == Max(2, CeilPct(fw, 33))
carveRadius(fw) == innerRadius(fw) + cutWidth(fw)

innerClear(bgColor) == IF bgColor.a = 0 THEN Transparent ELSE White

InsideOuter(f, x, y) ==
    insideRoundedRect(x, y, 0, 0, f.w - 1, f.h - 1, outerRadius(f.fw))

InsideCarve(f, x, y) ==
    insideRoundedRect(x, y,
        Max(0, f.fw - cutWidth(f.fw)), Max(0, f.fw - cutWidth(f.fw)),
        Min(f.w - 1, f.w - 1 - f.fw + cutWidth(f.fw)),
        Min(f.h - 1, f.h - 1 - f.fw + cutWidth(f.fw)),
        carveRadius(f.fw))

\* A plausible slip: the outer corners are never cleared.
CarvedPixelNoOuterClear(f, x, y, c) ==
    IF ~isFrameArea(f, x, y) THEN c
    ELSE IF InsideCarve(f, x, y) THEN innerClear(f.bg)
    ELSE c

\* A plausible slip: the carving is not held to the frame band.
CarvedPixelUnguarded(f, x, y, c) ==
    IF ~InsideOuter(f, x, y) THEN Transparent
    ELSE IF InsideCarve(f, x, y) THEN innerClear(f.bg)
    ELSE c

\* The body of the carving loop (qr.go 1745-1765); c is the pixel before it
CarvedPixel(f, x, y, c) ==
    IF ~isFrameArea(f, x, y) THEN c
    ELSE IF ~InsideOuter(f, x, y) THEN Transparent
    ELSE IF InsideCarve(f, x, y) THEN innerClear(f.bg)
    ELSE c

(***************************************************************************)
(* Bitmaps.  A decodable PNG file is a record with its size (w, h), the    *)
(* stage that wrote it (kind), that stage's parameters and the bitmap it   *)
(* read (src).  A file whose encoding was cut short is                     *)
(* [kind |-> "partial", bytes |-> n]; Null is "no such file".              *)
(***************************************************************************)
IsImage(f) == f.kind \notin {"null", "partial"}

\* The raster written by qrc.Save (qr.go 245): dimension x dimension modules
\* of moduleSize pixels.  The rasteriser is a library; what it draws is
\* taken as an arbitrary bitmap over a palette holding one colour of each
\* class the later stages distinguish: the foreground, the background, an
\* anti-aliased edge (partial alpha), a light opaque blend and a dark opaque
\* blend.  seed selects the bitmap.
SemiPixel  == RGBA(64, 64, 64, 128)
LightPixel == RGBA(230, 230, 230, 255)
DarkPixel  == RGBA(10, 20, 30, 255)

BasePixel(img, x, y) ==
    LET class == ((x \div img.moduleSize) + 2 * (y \div img.moduleSize)
                  + (x % 2) * (y % 3) + img.seed) % 5
    IN CASE class = 0 -> img.fg
         [] class = 1 -> img.bg
         [] class = 2 -> SemiPixel
         [] class = 3 -> LightPixel
         [] OTHER     -> DarkPixel

\* The logo bitmap (qr.go 1602, 1608) is rendered by a library from a file
\* outside the program; its coverage is an arbitrary mask.
\* Is the logo pixel's alpha above 32768 (qr.go 1634)
LogoOpaque(img, px, py) == (px + 2 * py + img.logoSeed) % 3 # 0

\* createGradientFadeOut (qr.go 2087-2120), reached from smartClearLogoArea
\* for the rectangle and circle shapes: is the pixel cleared to bgColor
FadeOutCleared(img, px, py) ==
    /\ px >= img.lx - img.pad /\ px < img.lx + img.lw + img.pad
    /\ py >= img.ly - img.pad /\ py < img.ly + img.lh + img.pad
    /\ LET distX == IF px < img.lx THEN img.lx - px
                    ELSE IF px >= img.lx + img.lw THEN px - (img.lx + img.lw - 1)
                    ELSE 0
           distY == IF py < img.ly THEN img.ly - py
                    ELSE IF py >= img.ly + img.lh THEN py - (img.ly + img.lh - 1)
                    ELSE 0
       IN \/ Max(distX, distY) <= img.pad
          \/ (px >= img.lx /\ px < img.lx + img.lw /\ py >= img.ly /\ py < img.ly + img.lh)

\* The logo drawing loop (qr.go 1631-1651): the colour a logo pixel paints
LogoColor(img, px, py) ==
    IF img.useGradient
    THEN interpolateGradientColor(px * img.lh + py * img.lw, 2 * img.lw * img.lh,
                                  img.gs, img.gm, img.ge)
    ELSE img.fg

RECURSIVE At(_, _, _)
\* The pixel (x, y) of a bitmap, following the stage that wrote it
At(img, x, y) ==
    CASE img.kind = "base" -> BasePixel(img, x, y)
      [] img.kind = "clean" ->
           \* cleanupAntiAliasing (qr.go 2140-2157)
           CleanPixel(At(img.src, x, y), img.fg)
      [] img.kind = "resize" ->
           \* ensureExactQRSize (qr.go 1052-1064), ensureMinimumQRSize
           \* (qr.go 996-1014): both axes use the width-based scale
           At(img.src,
              Min(SrcIndex(x, img.num, img.src.w), img.src.w - 1),
              Min(SrcIndex(y, img.num, img.src.w), img.src.h - 1))
      [] img.kind = "logo" ->
           \* addLogoToOriginalQR (qr.go 1626-1651)
           IF /\ x >= img.lx /\ x < img.lx + img.lw
              /\ y >= img.ly /\ y < img.ly + img.lh
              /\ LogoOpaque(img, x - img.lx, y - img.ly)
           THEN LogoColor(img, x - img.lx, y - img.ly)
           ELSE IF FadeOutCleared(img, x, y) THEN img.bg
           ELSE At(img.src, x, y)
      [] img.kind = "pad" ->
           \* addAbsolutePaddingToQRFile (qr.go 1156-1167)
           IF /\ x >= img.p /\ x < img.p + img.src.w
              /\ y >= img.p /\ y < img.p + img.src.h
           THEN At(img.src, x - img.p, y - img.p)
           ELSE IF img.bg.a # 0 THEN img.bg ELSE Transparent
      [] img.kind = "frame" ->
           \* addFrameToQRFile (qr.go 1284-1555)
           LET drawn == IF isFrameArea(img, x, y) THEN BandPixel(img, x, y)
                        ELSE At(img.src, x - img.fw, y - img.fw)
           IN IF img.rounded THEN CarvedPixel(img, x, y, drawn) ELSE drawn

(***************************************************************************)
(* The stages.  Each opens and decodes the file, computes a bitmap, then   *)
(* creates the file again and encodes into it.  io names what the file     *)
(* system does to the call:                                                *)
(*   "ok"      every operation succeeds                                    *)
(*   "open"    os.Open or image.Decode fails: the file is untouched        *)
(*   "create"  os.Create fails: the file is untouched                      *)
(*   "empty"   png.Encode fails before a byte is written                   *)
(*   "short"   png.Encode fails after some bytes are written               *)
(* A file that is not a decodable PNG makes image.Decode fail whatever io. *)
(* A stage returns the file it leaves and whether it returned an error.    *)
(***************************************************************************)
IOOutcomes == {"ok", "open", "create", "empty", "short"}

Partial(n) == [kind |-> "partial", bytes |-> n]

\* the tail every stage shares: os.Create, png.Encode, return
\* (e.g. qr.go 1066-1074, 1169-1180, 1557-1568, 1653-1664, 2159-2170)
WriteBack(f, new, io) ==
    CASE io = "create" -> [file |-> f, err |-> TRUE]
      [] io = "empty"  -> [file |-> Partial(0), err |-> TRUE]
      [] io = "short"  -> [file |-> Partial(1), err |-> TRUE]
      [] OTHER         -> [file |-> new, err |-> FALSE]

\* the head every stage shares: os.Open, image.Decode
DecodeFails(f, io) == ~IsImage(f) \/ io = "open"

\* cleanupAntiAliasing (qr.go 2123-2171)
cleanupAntiAliasing(f, fgColor, io) ==
    IF DecodeFails(f, io) THEN [file |-> f, err |-> TRUE]
    ELSE WriteBack(f, [kind |-> "clean", w |-> f.w, h |-> f.h,
                       fg |-> fgColor, src |-> f], io)

\* A plausible slip: the destination keeps the source's height.
ensureExactQRSizeKeepHeight(f, targetSize, io) ==
    IF DecodeFails(f, io) THEN [file |-> f, err |-> TRUE]
    ELSE IF f.w = 0 \/ targetSize <= 0 THEN [file |-> f, err |-> FALSE]
    ELSE WriteBack(f, [kind |-> "resize", w |-> targetSize, h |-> f.h,
                       num |-> targetSize, src |-> f], io)

\* ensureExactQRSize (qr.go 1031-1075)
ensureExactQRSize(f, targetSize, io) ==
    IF DecodeFails(f, io) THEN [file |-> f, err |-> TRUE]
    ELSE IF f.w = 0 \/ targetSize <= 0 THEN [file |-> f, err |-> FALSE]
    ELSE WriteBack(f, [kind |-> "resize", w |-> targetSize, h |-> targetSize,
                       num |-> targetSize, src |-> f], io)

\* newSize := int(float64(currentSize) * scaleFactor) (qr.go 987-988):
\* the product of currentSize and the rounded quotient, rounded again and
\* truncated, is minSize or minSize - 1
MinimumNewSize(currentSize, minSize) ==
    LET r  == ScaleRoundErr(minSize, currentSize)
        sh == FloatExp(minSize, currentSize) - ExpBelow(minSize)
    IN IF r >= 0 THEN minSize
       ELSE IF (IF sh >= 0 THEN 2 * (-r) * 2^sh > 1 ELSE 2 * (-r) > 2^(-sh))
            THEN minSize - 1 ELSE minSize

\* A plausible slip: only the width is scaled up.
ensureMinimumQRSizeKeepHeight(f, minSize, io) ==
    IF DecodeFails(f, io) THEN [file |-> f, err |-> TRUE]
    ELSE IF f.w >= minSize THEN [file |-> f, err |-> FALSE]
    ELSE WriteBack(f, [kind |-> "resize", w |-> MinimumNewSize(f.w, minSize),
                       h |-> f.h, num |-> minSize, src |-> f], io)

\* ensureMinimumQRSize (qr.go 963-1028)
ensureMinimumQRSize(f, minSize, io) ==
    IF DecodeFails(f, io) THEN [file |-> f, err |-> TRUE]
    ELSE IF f.w >= minSize THEN [file |-> f, err |-> FALSE]
    ELSE LET newSize == MinimumNewSize(f.w, minSize)
         IN WriteBack(f, [kind |-> "resize", w |-> newSize, h |-> newSize,
                          num |-> minSize, src |-> f], io)

\* paddingPixels = int(float64(paddingPixels) * scaleFactor) (qr.go 1146-1149)
ScaledPadding(p, dx, origSize) ==
    LET q == (p * dx) \div origSize
    IN IF p = 0 \/ (p * dx) % origSize # 0 THEN q
       ELSE LET r  == ScaleRoundErr(dx, origSize)
                sh == FloatExp(dx, origSize) - ExpBelow(q)
            IN IF r >= 0 THEN q
               ELSE IF (IF sh >= 0 THEN 2 * p * (-r) * 2^sh > origSize
                        ELSE 2 * p * (-r) > origSize * 2^(-sh))
                    THEN q - 1 ELSE q

\* A plausible slip: the padding rounded to the nearest pixel.
paddingPixelsRounded(borderPercent, origSize, dx) ==
    IF dx # origSize
    THEN ScaledPadding(RoundPct(origSize, borderPercent), dx, origSize)
    ELSE RoundPct(origSize, borderPercent)

\* paddingPixels (qr.go 1143-1149)
paddingPixels(borderPercent, origSize, dx) ==
    IF dx # origSize
    THEN ScaledPadding((origSize * borderPercent) \div 100, dx, origSize)
    ELSE (origSize * borderPercent) \div 100

\* addAbsolutePaddingToQRFile (qr.go 1130-1181)
addAbsolutePaddingToQRFile(f, borderPercent, origSize, bgColor, io) ==
    IF DecodeFails(f, io) THEN [file |-> f, err |-> TRUE]
    ELSE LET p == paddingPixels(borderPercent, origSize, f.w)
         IN WriteBack(f, [kind |-> "pad", w |-> f.w + p * 2, h |-> f.h + p * 2,
                          p |-> p, bg |-> bgColor, src |-> f], io)

\* addFrameToQRFile (qr.go 1184-1569); frameType is the pair
\* [rounded, pattern] for the string "rounded-" + pattern or pattern
addFrameToQRFile(f, frameType, frameWidth, bgColor, frameColor, useGradient, gradientStart, gradientMiddle, gradientEnd, io) ==
    IF DecodeFails(f, io) THEN [file |-> f, err |-> TRUE]
    ELSE WriteBack(f, [kind |-> "frame",
                       w |-> f.w + frameWidth * 2, h |-> f.h + frameWidth * 2,
                       fw |-> frameWidth, rounded |-> frameType.rounded,
                       pattern |-> frameType.pattern, bg |-> bgColor,
                       frameColor |-> frameColor, useGradient |-> useGradient,
                       gs |-> gradientStart, gm |-> gradientMiddle,
                       ge |-> gradientEnd, src |-> f], io)

\* The logo bitmap handed back by loadLogoImage or generateCustomDomainSVG
\* (qr.go 857-960): a library renders it; logo.ok says whether it could,
\* logo.shape which of the sizes within the limits it has, logo.seed its mask
LogoWidth(logo, maxLogoWidth) ==
    IF logo.shape = 1 THEN maxLogoWidth ELSE maxLogoWidth \div 2 + 1
LogoHeight(logo, maxLogoHeight) ==
    IF logo.shape = 1 THEN maxLogoHeight ELSE maxLogoHeight \div 2 + 1

\* addLogoToOriginalQR (qr.go 1572-1665)
addLogoToOriginalQR(f, fgColor, bgColor, origSize, useGradient, gradientStart, gradientMiddle, gradientEnd, branding, customDomain, logo, io) ==
    IF DecodeFails(f, io) THEN [file |-> f, err |-> TRUE]
    ELSE IF branding = "none" THEN [file |-> f, err |-> FALSE]
    ELSE IF customDomain # "" /\ branding = "custom" /\ ~logo.ok
         THEN [file |-> f, err |-> TRUE]
    ELSE IF ~(customDomain # "" /\ branding = "custom")
            /\ (branding # "default" \/ ~logo.ok)
         THEN [file |-> f, err |-> FALSE]
    ELSE LET lw      == LogoWidth(logo, origSize \div 3)
             lh      == LogoHeight(logo, origSize \div 5)
             marginX == origSize \div 45 + 1
             marginY == 8
         IN WriteBack(f, [kind |-> "logo", w |-> f.w, h |-> f.h,
                          lx |-> f.w - lw - marginX, ly |-> f.h - lh - marginY,
                          lw |-> lw, lh |-> lh, pad |-> marginX,
                          bg |-> bgColor, fg |-> fgColor,
                          useGradient |-> useGradient, gs |-> gradientStart,
                          gm |-> gradientMiddle, ge |-> gradientEnd,
                          logoSeed |-> logo.seed, src |-> f], io)

(***************************************************************************)
(* Functions under study on their own: the function's input is drawn in    *)
(* the initial state, one action applies it.                               *)
(***************************************************************************)
NoRequest ==
    /\ req = Null /\ file = Null /\ resp = Null
    /\ originalSize = 0 /\ didPreviewPreScale = FALSE /\ failed = FALSE

(***************************************************************************)
(* parseColorParam                                                         *)
(***************************************************************************)
MaxParamLen == 7

\* '#', a digit, a lower-case and an upper-case hex letter, a letter that is
\* no hex digit
ParamAlphabet == {"#", "3", "c", "E", "x"}

ToUpperChar(c) ==
    IF \E i \in 1..26 : LowerLetters[i] = c
    THEN UpperLetters[CHOOSE i \in 1..26 : LowerLetters[i] = c]
    ELSE c

\* "transparent" in every mix of letter case, and strings one edit from it
TransparentSpellings ==
    {[i \in 1..11 |-> IF i \in S THEN ToUpperChar(StrTransparent[i])
                      ELSE StrTransparent[i]] : S \in SUBSET (1..11)}
NearTransparent ==
    {<<"#">> \o StrTransparent, StrTransparent \o <<"t">>,
     SubSeq(StrTransparent, 1, 10), SubSeq(StrTransparent, 2, 11)}

ColorParams ==
    UNION {[1..n -> ParamAlphabet] : n \in 0..MaxParamLen}
        \cup TransparentSpellings \cup NearTransparent

Gray == RGBA(128, 128, 128, 255)

\* the inputs: every parameter with the default grey, the spellings of
\* "transparent" and the empty parameter with the default white as well
ColorInputs ==
    [param : ColorParams, defaultColor : {Gray}]
        \cup [param : TransparentSpellings \cup NearTransparent \cup {<<>>},
              defaultColor : {White}]

InitColor ==
    /\ pc = "parseColorParam"
    /\ arg \in ColorInputs
    /\ ret = Null
    /\ NoRequest

ParseColor ==
    /\ pc = "parseColorParam"
    /\ ret' = parseColorParam(arg.param, arg.defaultColor)
    /\ pc' = "parsed"
    /\ UNCHANGED <<handlerVars, arg>>

NextColor == ParseColor

SpecColor == InitColor /\ [][NextColor]_vars

\* What the claim calls a hex digit, and its value
HexDigitNames ==
    <<{"0"}, {"1"}, {"2"}, {"3"}, {"4"}, {"5"}, {"6"}, {"7"}, {"8"}, {"9"},
      {"a", "A"}, {"b", "B"}, {"c", "C"}, {"d", "D"}, {"e", "E"}, {"f", "F"}>>
IsHexDigit(c) == \E v \in 1..16 : c \in HexDigitNames[v]
HexDigitValue(c) == (CHOOSE v \in 1..16 : c \in HexDigitNames[v]) - 1
IsSixHex(s) == Len(s) = 6 /\ \A i \in 1..6 : IsHexDigit(s[i])
SixHexColor(s) ==
    RGBA(16 * HexDigitValue(s[1]) + HexDigitValue(s[2]),
         16 * HexDigitValue(s[3]) + HexDigitValue(s[4]),
         16 * HexDigitValue(s[5]) + HexDigitValue(s[6]), 255)
IsTransparentWord(s) ==
    /\ Len(s) = 11
    /\ \A i \in 1..11 : s[i] \in {StrTransparent[i], ToUpperChar(StrTransparent[i])}

\* C6: parseColorParam returns RGBA(RR,GG,BB,255) for every string of six hex
\* digits, with or without one leading '#'; it returns a colour of alpha 0 for
\* "transparent" in any letter case; for every other string, the empty one
\* included, it returns the default it was given.
C6_ParseColorParam ==
    pc = "parsed" =>
        LET s == arg.param IN
        IF IsSixHex(s) THEN ret = SixHexColor(s)
        ELSE IF Len(s) = 7 /\ s[1] = "#" /\ IsSixHex(SubSeq(s, 2, 7))
             THEN ret = SixHexColor(SubSeq(s, 2, 7))
        ELSE IF IsTransparentWord(s) THEN ret.a = 0
        ELSE ret = arg.defaultColor

\* a '#'-prefixed colour in mixed case has been parsed to its channels
C6_Witness ==
    /\ pc = "parsed"
    /\ arg.param = <<"#", "3", "c", "E", "3", "c", "E">>
    /\ ret = RGBA(60, 227, 206, 255)

\* an upper-case spelling of "transparent" has been parsed to alpha 0
C6_WitnessTransparent ==
    /\ pc = "parsed"
    /\ arg.param = [i \in 1..11 |-> ToUpperChar(StrTransparent[i])]
    /\ arg.defaultColor = White
    /\ ret = Transparent

(***************************************************************************)
(* The anti-alias cleaner on one pixel                                     *)
(***************************************************************************)
\* channel and alpha values on both sides of the cleaner's thresholds
ChannelValues == {0, 200, 201, 255}
AlphaValues   == {0, 1, 128, 254, 255}

\* pixels as img.At(x, y).RGBA() >> 8 yields them (qr.go 2142-2146):
\* alpha-premultiplied, so no channel exceeds alpha
CleanerPixels ==
    {RGBA(Min(r, a), Min(g, a), Min(b, a), a) :
        r \in ChannelValues, g \in ChannelValues, b \in ChannelValues,
        a \in AlphaValues}

\* foreground colours parseColorParam can hand to the cleaner, and the zero
\* value it gets in gradient mode (qr.go 88, 109, 252)
CleanerForegrounds ==
    {Black, White, RGBA(201, 201, 201, 255), RGBA(255, 0, 0, 255), Transparent}

InitClean ==
    /\ pc = "cleanPixel"
    /\ arg \in [c : CleanerPixels, fgColor : CleanerForegrounds]
    /\ ret = Null
    /\ NoRequest

CleanOnePixel ==
    /\ pc = "cleanPixel"
    /\ ret' = CleanPixel(arg.c, arg.fgColor)
    /\ pc' = "cleaned"
    /\ UNCHANGED <<handlerVars, arg>>

NextClean == CleanOnePixel

SpecClean == InitClean /\ [][NextClean]_vars

\* C7: the cleaner makes a pixel of alpha strictly between 0 and 255 fully
\* transparent; it makes an opaque pixel fully transparent when the pixel
\* differs from the foreground colour and its R, G and B all exceed 200; it
\* leaves every other pixel as it was.
C7_CleanerMapsPixels ==
    pc = "cleaned" =>
        LET c == arg.c IN
        IF c.a > 0 /\ c.a < 255 THEN ret = Transparent
        ELSE IF c.a = 255 /\ c # arg.fgColor /\ c.r > 200 /\ c.g > 200 /\ c.b > 200
             THEN ret = Transparent
        ELSE ret = c

\* a partially transparent pixel has been cleared, under a foreground whose
\* channels it does not match
C7_Witness ==
    /\ pc = "cleaned"
    /\ arg.c = RGBA(128, 128, 128, 128)
    /\ arg.fgColor = Black
    /\ ret = Transparent

(***************************************************************************)
(* ensureExactQRSize on its own, applied twice with the same target        *)
(***************************************************************************)
MaxSide   == 7      \* input bitmaps are 1..MaxSide wide and high
MaxTarget == 8      \* targets are 0..MaxTarget
MaxSeed   == 1      \* bitmaps 0..MaxSeed of each size

\* an arbitrary bitmap of the given size, as a written file
Bitmap(w, h, cell, seed, fgColor, bgColor) ==
    [kind |-> "base", w |-> w, h |-> h, moduleSize |-> cell, seed |-> seed,
     fg |-> fgColor, bg |-> bgColor]

Pixels(img) == (0 .. img.w - 1) \X (0 .. img.h - 1)

\* two decodable files hold the same bitmap
SameBitmap(a, b) ==
    /\ a.w = b.w /\ a.h = b.h
    /\ \A p \in Pixels(a) : At(a, p[1], p[2]) = At(b, p[1], p[2])

InitResize ==
    /\ pc = "resize"
    /\ arg \in [img : {Bitmap(w, h, 2, s, Black, Transparent) :
                          w \in 1..MaxSide, h \in 1..MaxSide, s \in 0..MaxSeed},
                targetSize : 0..MaxTarget,
                first : {Null}]
    /\ ret = Null
    /\ NoRequest

\* the first call
Resize ==
    /\ pc = "resize"
    /\ \E io \in IOOutcomes :
          ret' = ensureExactQRSize(arg.img, arg.targetSize, io)
    /\ pc' = "resized"
    /\ UNCHANGED <<handlerVars, arg>>

\* the second call, on the file the first one left
ResizeAgain ==
    /\ pc = "resized"
    /\ \E io \in IOOutcomes :
          ret' = ensureExactQRSize(ret.file, arg.targetSize, io)
    /\ arg' = [arg EXCEPT !.first = ret]
    /\ pc' = "resizedAgain"
    /\ UNCHANGED handlerVars

NextResize == Resize \/ ResizeAgain

SpecResize == InitResize /\ [][NextResize]_vars

\* C2: whenever ensureExactQRSize(file, T) with T > 0 returns without error,
\* the file holds a bitmap of exactly T x T pixels, whatever the size of the
\* bitmap it held before.
C2_ExactSize ==
    (pc = "resized" /\ arg.targetSize > 0 /\ ~ret.err) =>
        /\ IsImage(ret.file)
        /\ ret.file.w = arg.targetSize
        /\ ret.file.h = arg.targetSize

\* a bitmap that is not square has been resized to a larger square
C2_Witness ==
    /\ pc = "resized"
    /\ arg.img.w = 3 /\ arg.img.h = 5 /\ arg.targetSize = 7
    /\ ~ret.err
    /\ ret.file.w = 7 /\ ret.file.h = 7

\* C4: resizing to N a bitmap that was already resized to N changes no pixel:
\* the second result is pixel-identical to the first.
C4_ResizeIdempotent ==
    (pc = "resizedAgain" /\ arg.targetSize > 0 /\ ~arg.first.err /\ ~ret.err) =>
        SameBitmap(ret.file, arg.first.file)

\* a 5x3 bitmap has been resized to 4x4 twice, both calls succeeding, and
\* the first call did change the bitmap
C4_Witness ==
    /\ pc = "resizedAgain"
    /\ arg.img.w = 5 /\ arg.img.h = 3 /\ arg.targetSize = 4
    /\ ~arg.first.err /\ ~ret.err
    /\ ret.file.kind = "resize" /\ ret.file.src = arg.first.file
    /\ arg.first.file.src = arg.img

(***************************************************************************)
(* addAbsolutePaddingToQRFile on its own                                   *)
(***************************************************************************)
border == 7         \* border := 7 (qr.go 68)

MaxPadSide == 22    \* input bitmaps are 1..MaxPadSide wide

\* generatePNGQR passes the width of the file as originalSize (qr.go 283-289,
\* 305-309, 333); the function also accepts another value, and then scales
\* the padding
InitPad ==
    /\ pc = "pad"
    /\ arg \in UNION {[img : {Bitmap(w, h, 2, s, Black, bg) :
                                 h \in {w, w \div 2 + 1}, s \in 0..MaxSeed},
                       origSize : {w, 2 * w + 1},
                       bgColor : {bg}] :
                      w \in 1..MaxPadSide, bg \in {White, Gray, Transparent}}
    /\ ret = Null
    /\ NoRequest

Pad ==
    /\ pc = "pad"
    /\ \E io \in IOOutcomes :
          ret' = addAbsolutePaddingToQRFile(arg.img, border, arg.origSize,
                                            arg.bgColor, io)
    /\ pc' = "padded"
    /\ UNCHANGED <<handlerVars, arg>>

NextPad == Pad

SpecPad == InitPad /\ [][NextPad]_vars

\* the padded file is the input grown by p pixels on every side, with the
\* input's pixels unchanged at offset (p, p)
PaddedBy(p) ==
    /\ IsImage(ret.file)
    /\ ret.file.w = arg.img.w + 2 * p
    /\ ret.file.h = arg.img.h + 2 * p
    /\ \A q \in Pixels(arg.img) :
          At(ret.file, q[1] + p, q[2] + p) = At(arg.img, q[1], q[2])

FrameBases == {20, 67, 84, 100}

BorderPatterns ==
    {"simple", "dashed", "dotted", "double", "irregular", "diagonal", "grid"}

Red == RGBA(255, 0, 0, 255)

\* how the band is painted: a flat colour, or the gradient of three stops
FramePaints ==
    [useGradient : {FALSE}, frameColor : {Black, White, Transparent},
     gs : {Black}, gm : {Gray}, ge : {Red}]
        \cup [useGradient : {TRUE}, frameColor : {Black},
              gs : {Black}, gm : {Gray}, ge : {Red}]

\* frameWidthPercent (qr.go 70-76)
frameWidthPercent(frameType) == IF frameType.rounded THEN 6 ELSE 4

\* A plausible slip: the frame width rounded to the nearest pixel.
framePixelsRounded(origSize, frameType) ==
    (origSize * frameWidthPercent(frameType) + 50) \div 100

\* framePixels and frameBgColor (qr.go 340-344)
framePixels(origSize, frameType) == (origSize * frameWidthPercent(frameType)) \div 100
frameBgColor(bgColor) == IF bgColor.a = 0 THEN Transparent ELSE White

InitFrame ==
    /\ pc = "frame"
    /\ arg \in UNION {[img : {Bitmap(o + 2 * ((o * border) \div 100),
                                     o + 2 * ((o * border) \div 100),
                                     4, 0, Black, bg)},
                       origSize : {o},
                       frameType : [rounded : BOOLEAN, pattern : BorderPatterns],
                       bgColor : {bg},
                       paint : FramePaints] :
                      o \in FrameBases, bg \in {White, Transparent, Red}}
    /\ ret = Null
    /\ NoRequest

Frame ==
    /\ pc = "frame"
    /\ \E io \in IOOutcomes :
          ret' = addFrameToQRFile(arg.img, arg.frameType,
                                  framePixels(arg.origSize, arg.frameType),
                                  frameBgColor(arg.bgColor), arg.paint.frameColor,
                                  arg.paint.useGradient, arg.paint.gs,
                                  arg.paint.gm, arg.paint.ge, io)
    /\ pc' = "framed"
    /\ UNCHANGED <<handlerVars, arg>>

NextFrame == Frame

SpecFrame == InitFrame /\ [][NextFrame]_vars

\* A rounded rectangle as geometry has it: the points of the rectangle
\* [left, right] x [top, bottom] that lie within r of the rectangle shrunk
\* by r on every side.
InRoundedRectangle(x, y, left, top, right, bottom, r) ==
    /\ x >= left /\ x <= right /\ y >= top /\ y <= bottom
    /\ LET nx == IF x < left + r THEN left + r
                 ELSE IF x > right - r THEN right - r ELSE x
           ny == IF y < top + r THEN top + r
                 ELSE IF y > bottom - r THEN bottom - r ELSE y
       IN (x - nx) * (x - nx) + (y - ny) * (y - ny) <= r * r

\* the frame band of the framed bitmap f
BandOf(f) ==
    {q \in Pixels(f) : \/ q[1] < f.fw \/ q[1] >= f.w - f.fw
                       \/ q[2] < f.fw \/ q[2] >= f.h - f.fw}

\* C5: for every rounded frame at least 4 px wide, after the carving every
\* band pixel outside the outer rounded rectangle (the whole bitmap, radius
\* innerRadius + fw) is transparent, and every band pixel inside the carved
\* inner rounded rectangle (the inner boundary grown by cut, radius
\* innerRadius + cut) holds a clear colour (transparent, or white on an opaque
\* background), so it carries the frame colour only where the frame colour
\* is itself that clear colour.
C5_RoundedCarving ==
    (pc = "framed" /\ ~ret.err /\ arg.frameType.rounded /\ ret.file.fw >= 4) =>
        LET f      == ret.file
            fw     == f.fw
            innerR == IF (55 * fw + 50) \div 100 < 2 THEN 2 ELSE (55 * fw + 50) \div 100
            cut    == IF (33 * fw + 99) \div 100 < 2 THEN 2 ELSE (33 * fw + 99) \div 100
            clear  == IF arg.bgColor.a = 0 THEN Transparent ELSE White
        IN \A q \in BandOf(f) :
              /\ ~InRoundedRectangle(q[1], q[2], 0, 0, f.w - 1, f.h - 1, innerR + fw)
                    => At(f, q[1], q[2]) = Transparent
              /\ InRoundedRectangle(q[1], q[2], fw - cut, fw - cut,
                                    f.w - 1 - fw + cut, f.h - 1 - fw + cut,
                                    innerR + cut)
                    => /\ At(f, q[1], q[2]) \in {Transparent, clear}
                       /\ (~arg.paint.useGradient
                             /\ arg.paint.frameColor \notin {Transparent, White})
                            => At(f, q[1], q[2]) # arg.paint.frameColor

\* a rounded simple black frame 4 px wide on a white background: the corner
\* pixel is cleared, the outer stroke is kept, the inner strip is carved
C5_Witness ==
    /\ pc = "framed" /\ ~ret.err
    /\ arg.frameType = [rounded |-> TRUE, pattern |-> "simple"]
    /\ arg.bgColor = White /\ ~arg.paint.useGradient
    /\ arg.paint.frameColor = Black
    /\ ret.file.fw = 4 /\ ret.file.w = 83
    /\ At(ret.file, 0, 0) = Transparent
    /\ At(ret.file, 41, 0) = Black
    /\ At(ret.file, 41, 3) = White

(***************************************************************************)
(* The request handler.  req holds the query parameters: url, format, bg,  *)
(* fg and borderColor as given (character sequences, <<>> when absent),    *)
(* colorMode, cornerStyle, borderPattern, size, branding and customDomain; *)
(* previewSize is the integer strconv.Atoi reads, 0 standing for an        *)
(* absent, unreadable or zero parameter (all are skipped alike,            *)
(* qr.go 296-297, 352-353).  The gradient stop parameters are absent.      *)
(***************************************************************************)
StrPng == <<"p", "n", "g">>
StrSvg == <<"s", "v", "g">>
StrJpg == <<"j", "p", "g">>

\* A plausible slip: a format other than png and svg is kept as it is.
FormatKeepsUnknown(r) == ToLower(r.format)

\* format (qr.go 45-49)
Format(r) ==
    IF ToLower(r.format) # StrPng /\ ToLower(r.format) # StrSvg THEN StrPng
    ELSE ToLower(r.format)

\* bgColor (qr.go 53)
bgColor(r) == parseColorParam(r.bg, White)

\* frame (qr.go 57-65): [rounded, pattern] stands for "rounded-" + pattern or
\* pattern; the string "none" is [rounded |-> FALSE, pattern |-> "none"]
FrameNone == [rounded |-> FALSE, pattern |-> "none"]
frame(r) ==
    IF r.cornerStyle = "none" THEN FrameNone
    ELSE IF r.cornerStyle = "rounded"
         THEN [rounded |-> TRUE, pattern |-> r.borderPattern]
    ELSE [rounded |-> FALSE, pattern |-> r.borderPattern]

\* colour mode (qr.go 85-111): fgColor keeps its zero value in gradient mode
useGradient(r) == r.colorMode = "gradient"
gradientStart(r)  == parseColorParam(r.gradientStart, Black)
gradientMiddle(r) == parseColorParam(r.gradientMiddle, Gray)
gradientEnd(r)    == parseColorParam(r.gradientEnd, Red)
fgColor(r) ==
    IF useGradient(r) THEN RGBA(0, 0, 0, 0) ELSE parseColorParam(r.fg, Black)

\* borderColor (qr.go 113-124)
borderColor(r) ==
    IF r.borderColor # <<>> THEN parseColorParam(r.borderColor, Black)
    ELSE IF useGradient(r) THEN gradientStart(r) ELSE fgColor(r)

\* the module shape handed to the writer (qr.go 216-230)
shapeOption(qrShape) ==
    IF qrShape \in {"circle", "liquid", "chain", "hstripe", "vstripe"} THEN qrShape
    ELSE "rectangle"

\* moduleSize (qr.go 172-180)
moduleSize(r) == IF r.size = "download" THEN 120 ELSE 16

\* brandingColor (qr.go 319-322)
brandingColor(r) == IF useGradient(r) THEN gradientStart(r) ELSE fgColor(r)

\* paddingBgColor (qr.go 329-332)
paddingBgColor(r) == IF bgColor(r).a = 0 THEN Transparent ELSE bgColor(r)

\* desiredBase (qr.go 300-301):
\* round(target / (1 + 2 x (border + frameWidthPercent) / 100))
desiredBase(target, fwp) ==
    (200 * target + (100 + 2 * (border + fwp))) \div (2 * (100 + 2 * (border + fwp)))

(***************************************************************************)
(* The vector output.  An SVG document is its canvas side, the stops of    *)
(* its gradient definition and the sequence of its drawing elements; an    *)
(* element is [tag, x, y, w, h, fill, text], a circle keeping cx, cy in    *)
(* x, y and r in w and h, a text its font size in w.                       *)
(***************************************************************************)
\* fmt.Sprintf("rgb(%d,%d,%d)", ...) or "url(#qrGradient)" (qr.go 464-467, 485-488)
FillRGB(r, g, b) == [url |-> FALSE, r |-> r, g |-> g, b |-> b]
FillOf(gradient, c) == IF gradient THEN [url |-> TRUE, r |-> 0, g |-> 0, b |-> 0] ELSE FillRGB(c.r, c.g, c.b)

SVGRect(x, y, w, h, fill) == [tag |-> "rect", x |-> x, y |-> y, w |-> w, h |-> h, fill |-> fill, text |-> ""]
SVGCircle(cx, cy, r, fill) == [tag |-> "circle", x |-> cx, y |-> cy, w |-> r, h |-> r, fill |-> fill, text |-> ""]
SVGText(x, y, fontSize, fill, text) == [tag |-> "text", x |-> x, y |-> y, w |-> fontSize, h |-> 0, fill |-> fill, text |-> text]

\* targetSize (qr.go 416-424)
targetSize(size) == IF size = "download" THEN 2000 ELSE 400

\* the dark-pixel test r < 32768 on the 16-bit channel (qr.go 524-525)
IsDarkPixel(c) == c.r * 257 < 32768

\* the primitive of one dark module (qr.go 527-541)
moduleElementAlwaysRect(qrShape, moduleX, moduleY, modSize, fillColor) ==
    SVGRect(moduleX, moduleY, modSize, modSize, fillColor)
moduleElement(qrShape, moduleX, moduleY, modSize, fillColor) ==
    IF qrShape = "circle"
    THEN SVGCircle(moduleX + modSize \div 2, moduleY + modSize \div 2, modSize \div 2, fillColor)
    ELSE SVGRect(moduleX, moduleY, modSize, modSize, fillColor)

RECURSIVE rowElements(_, _, _, _, _, _, _)
\* the inner loop over x of one row y of the extraction bitmap (qr.go 523-543)
rowElements(img, x, y, qrOffset, modSize, qrShape, fillColor) ==
    IF x >= img.w THEN <<>>
    ELSE (IF IsDarkPixel(At(img, x, y))
          THEN <<moduleElement(qrShape, qrOffset + x * modSize, qrOffset + y * modSize, modSize, fillColor)>>
          ELSE <<>>)
         \o rowElements(img, x + 1, y, qrOffset, modSize, qrShape, fillColor)

RECURSIVE moduleElements(_, _, _, _, _, _)
\* the outer loop over y (qr.go 518-544); both loops run to actualDimension,
\* the width of the bitmap
moduleElements(img, y, qrOffset, modSize, qrShape, fillColor) ==
    IF y >= img.w THEN <<>>
    ELSE rowElements(img, 0, y, qrOffset, modSize, qrShape, fillColor)
         \o moduleElements(img, y + 1, qrOffset, modSize, qrShape, fillColor)

\* addSVGBrandingLogo (qr.go 580-605)
addSVGBrandingLogo(branding, customDomain, fillColor, qrOffset, target) ==
    LET logoSize == target \div 3
        marginX  == target \div 45 + 1
        marginY  == 8
        logoX    == qrOffset + target - logoSize - marginX
        logoY    == qrOffset + target - logoSize - marginY
    IN IF branding = "none" THEN <<>>
       ELSE IF customDomain # "" /\ branding = "custom"
            THEN <<SVGText(logoX, logoY + logoSize \div 2, logoSize \div 8, fillColor, customDomain)>>
       ELSE IF branding = "default"
            THEN <<SVGText(logoX, logoY + logoSize \div 2, logoSize \div 10, fillColor, "shortn.link")>>
       ELSE <<>>

\* generateVectorSVG (qr.go 405-577), img the decoded extraction bitmap; the
\* matrix dimension qrc.Dimension() is the width of that bitmap
generateVectorSVG(img, useGrad, fg, bg, gStart, gMiddle, gEnd, bColor, brd, frameType, fwp, size, qrShape, branding, customDomain, centerLogo) ==
    LET dimension     == img.w
        target        == targetSize(size)
        modSize       == target \div dimension
        paddingPx     == (target * brd) \div 100
        framePx       == IF frameType # FrameNone THEN (target * fwp) \div 100 ELSE 0
        totalSize     == target + paddingPx * 2 + framePx * 2
        qrOffset      == framePx + paddingPx
        frameFill     == FillOf(useGrad, bColor)
        fillColor     == FillOf(useGrad, fg)
        background    == IF bg.a > 0 THEN <<SVGRect(0, 0, totalSize, totalSize, FillRGB(bg.r, bg.g, bg.b))>> ELSE <<>>
        frameRects    == IF frameType # FrameNone
                         THEN <<SVGRect(0, 0, totalSize, framePx, frameFill),
                                SVGRect(0, totalSize - framePx, totalSize, framePx, frameFill),
                                SVGRect(0, framePx, framePx, totalSize - 2 * framePx, frameFill),
                                SVGRect(totalSize - framePx, framePx, framePx, totalSize - 2 * framePx, frameFill)>>
                         ELSE <<>>
        logoSize      == target \div 4
        centre        == IF centerLogo = "true"
                         THEN <<SVGCircle(totalSize \div 2, totalSize \div 2, logoSize \div 2 + 5, FillRGB(255, 255, 255)),
                                SVGRect(totalSize \div 2 - logoSize \div 2, totalSize \div 2 - logoSize \div 2, logoSize, logoSize, FillRGB(128, 128, 128))>>
                         ELSE <<>>
    IN [totalSize |-> totalSize,
        stops     |-> IF useGrad THEN <<gStart, gMiddle, gEnd>> ELSE <<>>,
        elements  |-> background \o frameRects
                      \o moduleElements(img, 0, qrOffset, modSize, qrShape, fillColor)
                      \o centre
                      \o addSVGBrandingLogo(branding, customDomain, fillColor, qrOffset, target)]

\* Responses
JSONError(status) == [kind |-> "json", status |-> status]
\* the headers and body of qr.go 572-574
SVGResponse(doc) ==
    [kind |-> "svg", status |-> 200, contentType |-> "image/svg+xml", doc |-> doc]
\* the headers of qr.go 383 followed by the bytes io.Copy got through:
\* "all", "some" or "none" of the file f
PNGResponse(f, bytes) ==
    [kind |-> "image", status |-> 200, contentType |-> "image/png",
     bytes |-> bytes, file |-> f]

\* the width image.DecodeConfig reads (qr.go 283-289, 305-309)
ReadWidth(f, old) == IF IsImage(f) THEN f.w ELSE old

\* matrix dimensions the encoder produces for short URLs (versions 1 and 2)
Dimensions == {21, 25}

\* the logo bitmaps the renderer may hand back
MaxLogoShape == 2
Logos ==
    {[ok |-> FALSE, shape |-> 1, seed |-> 0]}
        \cup {[ok |-> TRUE, shape |-> s, seed |-> s] : s \in 1..MaxLogoShape}

Finish(response) ==
    /\ resp' = response
    /\ pc' = "done"

\* QRCodeHandler (qr.go 38-165): reject an empty url, resolve the
\* parameters, build the matrix, dispatch on the format
HandleRequest ==
    /\ pc = "QRCodeHandler"
    /\ \E newWithOk \in BOOLEAN :
          IF req.url = <<>> THEN Finish(JSONError(400)) /\ UNCHANGED failed
          ELSE IF ~newWithOk THEN Finish(JSONError(500)) /\ failed' = TRUE
          ELSE /\ pc' = IF Format(req) = StrSvg THEN "generateSVGQR" ELSE "newWriter"
               /\ UNCHANGED <<resp, failed>>
    /\ UNCHANGED <<req, file, originalSize, didPreviewPreScale, arg, ret>>

\* generateSVGQR, generateVectorSVG up to the extraction file (qr.go 396-504):
\* standard.New and qrc.Save write the matrix as a PNG of one pixel a module
GenerateSVG ==
    /\ pc = "generateSVGQR"
    /\ \E ok \in BOOLEAN, dimension \in Dimensions, seed \in 0..MaxSeed :
          IF ok
          THEN /\ file' = Bitmap(dimension, dimension, 1, seed, Black, White)
               /\ pc' = "readMatrix"
               /\ UNCHANGED <<resp, failed>>
          ELSE /\ file' = Null
               /\ Finish(JSONError(500))
               /\ failed' = TRUE
    /\ UNCHANGED <<req, originalSize, didPreviewPreScale, arg, ret>>

\* generateVectorSVG from the reading of the extraction file to the response
\* (qr.go 506-577); on an error the deferred os.Remove (qr.go 493) runs
\* before generateSVGQR writes the error
BuildSVG ==
    /\ pc = "readMatrix"
    /\ \E io \in {"ok", "open"} :
          IF DecodeFails(file, io)
          THEN Finish(JSONError(500)) /\ failed' = TRUE /\ file' = Null
          ELSE /\ resp' = SVGResponse(generateVectorSVG(file, useGradient(req), fgColor(req), bgColor(req), gradientStart(req), gradientMiddle(req), gradientEnd(req), borderColor(req), border, frame(req), frameWidthPercent(frame(req)), req.size, req.qrShape, req.branding, req.customDomain, req.centerLogo))
               /\ pc' = "removeMatrix"
               /\ UNCHANGED <<file, failed>>
    /\ UNCHANGED <<req, originalSize, didPreviewPreScale, arg, ret>>

\* the deferred os.Remove(tmpFile) of generateVectorSVG (qr.go 493), run when
\* the function returns after c.Data
RemoveMatrix ==
    /\ pc = "removeMatrix"
    /\ file' = Null
    /\ pc' = "done"
    /\ UNCHANGED <<req, originalSize, didPreviewPreScale, resp, failed, arg, ret>>

\* standard.New (qr.go 238-242)
NewWriter ==
    /\ pc = "newWriter"
    /\ \E ok \in BOOLEAN :
          IF ok THEN pc' = "save" /\ UNCHANGED <<resp, failed>>
          ELSE Finish(JSONError(500)) /\ failed' = TRUE
    /\ UNCHANGED <<req, file, originalSize, didPreviewPreScale, arg, ret>>

\* qrc.Save (qr.go 244-248)
Save ==
    /\ pc = "save"
    /\ \E ok \in BOOLEAN, dimension \in Dimensions, seed \in 0..MaxSeed :
          IF ok
          THEN /\ file' = Bitmap(dimension * moduleSize(req), dimension * moduleSize(req),
                                 moduleSize(req), seed,
                                 IF useGradient(req) THEN gradientStart(req)
                                 ELSE fgColor(req),
                                 bgColor(req))
                            @@ [shape |-> shapeOption(req.qrShape)]
               /\ pc' = "cleanup"
               /\ UNCHANGED <<resp, failed>>
          ELSE /\ file' = Partial(0)
               /\ Finish(JSONError(500))
               /\ failed' = TRUE
    /\ UNCHANGED <<req, originalSize, didPreviewPreScale, arg, ret>>

\* a stage whose error is only printed: the file it leaves, the error noted
Continue(result, next) ==
    /\ file' = result.file
    /\ failed' = (failed \/ result.err)
    /\ pc' = next

\* anti-alias cleanup for transparent backgrounds (qr.go 250-255)
Cleanup ==
    /\ pc = "cleanup"
    /\ \E io \in IOOutcomes :
          IF bgColor(req).a = 0
          THEN Continue(cleanupAntiAliasing(file, fgColor(req), io), "minimum")
          ELSE Continue([file |-> file, err |-> FALSE], "minimum")
    /\ UNCHANGED <<req, originalSize, didPreviewPreScale, resp, arg, ret>>

\* the download size is brought to 2000 pixels, then originalSize is read
\* (qr.go 275-289)
Minimum ==
    /\ pc = "minimum"
    /\ \E io \in IOOutcomes :
          /\ IF req.size = "download"
             THEN Continue(ensureMinimumQRSize(file, 2000, io), "preScale")
             ELSE Continue([file |-> file, err |-> FALSE], "preScale")
          /\ originalSize' = ReadWidth(file', 0)
    /\ UNCHANGED <<req, didPreviewPreScale, resp, arg, ret>>

\* the preview pre-scale (qr.go 291-316)
PreScale ==
    /\ pc = "preScale"
    /\ \E io \in IOOutcomes :
          LET base == desiredBase(req.previewSize, frameWidthPercent(frame(req)))
          IN IF /\ req.size = "preview" /\ req.previewSize > 0 /\ originalSize > 0
                /\ base > 0 /\ base # originalSize
             THEN LET result == ensureExactQRSize(file, base, io)
                  IN /\ Continue(result, "logo")
                     /\ originalSize' = IF result.err THEN originalSize
                                        ELSE ReadWidth(result.file, originalSize)
                     /\ didPreviewPreScale' = ~result.err
             ELSE /\ Continue([file |-> file, err |-> FALSE], "logo")
                  /\ UNCHANGED <<originalSize, didPreviewPreScale>>
    /\ UNCHANGED <<req, resp, arg, ret>>

\* step 1, the branding logo (qr.go 318-325)
Logo ==
    /\ pc = "logo"
    /\ \E io \in IOOutcomes, logo \in Logos :
          Continue(addLogoToOriginalQR(file, brandingColor(req), bgColor(req),
                                       originalSize, useGradient(req),
                                       gradientStart(req), gradientMiddle(req),
                                       gradientEnd(req), req.branding,
                                       req.customDomain, logo, io),
                   "padding")
    /\ UNCHANGED <<req, originalSize, didPreviewPreScale, resp, arg, ret>>

\* step 2, the padding (qr.go 327-336)
Padding ==
    /\ pc = "padding"
    /\ \E io \in IOOutcomes :
          IF border > 0
          THEN Continue(addAbsolutePaddingToQRFile(file, border, originalSize,
                                                   paddingBgColor(req), io),
                        "addFrame")
          ELSE Continue([file |-> file, err |-> FALSE], "addFrame")
    /\ UNCHANGED <<req, originalSize, didPreviewPreScale, resp, arg, ret>>

\* step 3, the frame (qr.go 338-348)
AddFrame ==
    /\ pc = "addFrame"
    /\ \E io \in IOOutcomes :
          IF frame(req) # FrameNone
          THEN Continue(addFrameToQRFile(file, frame(req),
                                         framePixels(originalSize, frame(req)),
                                         frameBgColor(bgColor(req)), borderColor(req),
                                         useGradient(req), gradientStart(req),
                                         gradientMiddle(req), gradientEnd(req), io),
                        "finalScale")
          ELSE Continue([file |-> file, err |-> FALSE], "finalScale")
    /\ UNCHANGED <<req, originalSize, didPreviewPreScale, resp, arg, ret>>

\* A plausible slip: the final scaling does not look at didPreviewPreScale.
FinalScaleAlways ==
    /\ pc = "finalScale"
    /\ \E io \in IOOutcomes :
          IF req.size = "preview" /\ req.previewSize > 0
          THEN Continue(ensureExactQRSize(file, req.previewSize, io), "send")
          ELSE Continue([file |-> file, err |-> FALSE], "send")
    /\ UNCHANGED <<req, originalSize, didPreviewPreScale, resp, arg, ret>>

\* the fall-back scaling of the composed preview (qr.go 350-359)
FinalScale ==
    /\ pc = "finalScale"
    /\ \E io \in IOOutcomes :
          IF req.size = "preview" /\ ~didPreviewPreScale /\ req.previewSize > 0
          THEN Continue(ensureExactQRSize(file, req.previewSize, io), "send")
          ELSE Continue([file |-> file, err |-> FALSE], "send")
    /\ UNCHANGED <<req, originalSize, didPreviewPreScale, resp, arg, ret>>

\* what the file system and the connection do to the sending (qr.go 361-392):
\* "stat" os.Stat fails, "open" os.Open fails, or io.Copy gets "all", "some"
\* or "none" of the bytes through
SendOutcomes == {"stat", "open", "all", "some", "none"}

\* verify the file, send it, remove it (qr.go 361-393)
Send ==
    /\ pc = "send"
    /\ \E out \in SendOutcomes :
          IF out = "stat"
          THEN Finish(JSONError(500)) /\ failed' = TRUE /\ UNCHANGED file
          ELSE IF file = Partial(0)
          THEN Finish(JSONError(500)) /\ failed' = TRUE /\ file' = Null
          ELSE IF out = "open"
          THEN Finish(JSONError(500)) /\ failed' = TRUE /\ UNCHANGED file
          ELSE /\ Finish(PNGResponse(file, out))
               /\ failed' = (failed \/ out # "all")
               /\ file' = Null
    /\ UNCHANGED <<req, originalSize, didPreviewPreScale, arg, ret>>

Next ==
    \/ HandleRequest
    \/ GenerateSVG
    \/ BuildSVG
    \/ RemoveMatrix
    \/ NewWriter
    \/ Save
    \/ Cleanup
    \/ Minimum
    \/ PreScale
    \/ Logo
    \/ Padding
    \/ AddFrame
    \/ FinalScale
    \/ Send

\* the text handed to the encoder: qrcode.NewWith(url, ...) (qr.go 39, 136)
encodedText(r) == r.url

\* The requests.  Previews of 1, 24, 40, 300 and 423 pixels: 300 is the
\* documented scenario, 423 is the size a 336-pixel base with a rounded frame
\* already has.
PreviewSizes == {0, 1, 24, 40, 300, 423}

StrJPG == <<"J", "P", "G">>
StrSVG == <<"S", "V", "G">>

\* target URLs: without a scheme, with another scheme, without a host, with
\* surrounding blanks, and a well-formed one
StrU      == <<"u">>
UrlFtp    == <<"f", "t", "p", ":", "/", "/", "h">>
UrlNoHost == <<"h", "t", "t", "p", ":", "/", "/">>
UrlSpaced == <<" ", "h", "t", "t", "p", ":", "/", "/", "h", " ">>
UrlHttp   == <<"h", "t", "t", "p", ":", "/", "/", "h">>

PlainRequest ==
    [url |-> StrU, format |-> StrPng, bg |-> <<>>, fg |-> <<>>,
     borderColor |-> <<>>, colorMode |-> "flat", cornerStyle |-> "none",
     borderPattern |-> "simple", size |-> "preview", previewSize |-> 0,
     branding |-> "default", customDomain |-> "",
     qrShape |-> "rectangle", centerLogo |-> "false",
     gradientStart |-> <<>>, gradientMiddle |-> <<>>, gradientEnd |-> <<>>]

\* PNG requests in every combination of background, frame, size and branding
SizeRequests ==
    {[PlainRequest EXCEPT !.bg = b, !.cornerStyle = c, !.borderPattern = p,
                          !.size = s[1], !.previewSize = s[2], !.branding = br] :
        b \in {<<>>, StrTransparent},
        c \in {"none", "rounded", "square"},
        p \in {"simple", "double"},
        s \in ({"preview"} \X PreviewSizes) \cup {<<"download", 0>>},
        br \in {"none", "default"}}

\* requests in the other formats, a custom-domain request, a request without url
FormatRequests ==
    {[PlainRequest EXCEPT !.format = f, !.bg = b] :
        f \in {StrJpg, StrJPG, StrSvg, StrSVG}, b \in {<<>>, StrTransparent}}
OtherRequests ==
    {[PlainRequest EXCEPT !.url = <<>>],
     [PlainRequest EXCEPT !.branding = "custom", !.customDomain = "example.org"],
     [PlainRequest EXCEPT !.colorMode = "gradient", !.cornerStyle = "rounded"],
     [PlainRequest EXCEPT !.cornerStyle = "square", !.borderPattern = "none"]}

\* vector requests in every module shape, size, frame and centre logo
SvgRequests ==
    {[PlainRequest EXCEPT !.format = StrSvg, !.qrShape = q, !.size = z,
                          !.cornerStyle = c, !.centerLogo = l, !.colorMode = m] :
        q \in {"rectangle", "circle"}, z \in {"preview", "download"},
        c \in {"none", "rounded", "square"}, l \in {"false", "true"},
        m \in {"flat", "gradient"}}

\* requests with malformed colour, shape, frame and format parameters, next
\* to the same requests with well-formed ones
StrGarbage == <<"x", "y", "z">>
StrBmp     == <<"b", "m", "p">>
MalformedRequests ==
    {[PlainRequest EXCEPT !.format = f, !.bg = c, !.fg = c, !.borderColor = c,
                          !.gradientStart = c, !.gradientMiddle = c,
                          !.gradientEnd = c, !.qrShape = q, !.cornerStyle = k,
                          !.borderPattern = p, !.colorMode = m,
                          !.previewSize = 50] :
        f \in {StrPng, StrBmp, StrSvg}, c \in {<<>>, StrGarbage},
        q \in {"rectangle", "blob"}, k \in {"none", "wavy", "rounded"},
        p \in {"simple", "zigzag"}, m \in {"flat", "gradient"}}

\* requests that differ in the target URL only
UrlRequests ==
    {[PlainRequest EXCEPT !.url = u] : u \in {UrlFtp, UrlNoHost, UrlSpaced, UrlHttp}}

Requests ==
    SizeRequests \cup FormatRequests \cup OtherRequests \cup UrlRequests \cup SvgRequests
        \cup MalformedRequests

InitWith(requests) ==
    /\ pc = "QRCodeHandler"
    /\ req \in requests
    /\ file = Null
    /\ originalSize = 0
    /\ didPreviewPreScale = FALSE
    /\ resp = Null
    /\ failed = FALSE
    /\ arg = Null
    /\ ret = Null

Init == InitWith(Requests)

Spec == Init /\ [][Next]_vars

\* Small previews on a transparent background, rendered pixel by pixel
PixelRequests ==
    {[PlainRequest EXCEPT !.bg = StrTransparent, !.previewSize = 24,
                          !.colorMode = m, !.cornerStyle = f[1],
                          !.borderPattern = f[2]] :
        m \in {"flat", "gradient"},
        f \in {<<"rounded", "double">>, <<"rounded", "simple">>,
               <<"square", "dotted">>, <<"none", "simple">>}}
        \cup {[PlainRequest EXCEPT !.format = StrSvg],
              [PlainRequest EXCEPT !.bg = StrTransparent, !.previewSize = 20,
                                   !.cornerStyle = "square",
                                   !.borderPattern = "dashed",
                                   !.fg = <<"f", "f", "f", "f", "f", "f">>]}

InitPixels == InitWith(PixelRequests)

SpecPixels == InitPixels /\ [][Next]_vars

\* the request was answered with the bytes of the temporary file
SentImage == pc = "done" /\ resp.kind = "image" /\ resp.bytes = "all"

\* C1: for a preview PNG request with a positive previewSize T, all of whose
\* stages succeeded, the bitmap sent is exactly T x T pixels.
C1_PreviewExactSize ==
    (SentImage /\ ~failed /\ req.size = "preview" /\ req.previewSize > 0) =>
        /\ IsImage(resp.file)
        /\ resp.file.w = req.previewSize
        /\ resp.file.h = req.previewSize

\* the documented scenario (previewSize 300, rounded simple frame) has been
\* answered, every stage succeeding, with a bitmap of 298 x 298 pixels
C1_Scenario298 ==
    /\ SentImage /\ ~failed
    /\ req.size = "preview" /\ req.previewSize = 300
    /\ req.cornerStyle = "rounded" /\ req.borderPattern = "simple"
    /\ didPreviewPreScale /\ originalSize = 238
    /\ resp.file.w = 298 /\ resp.file.h = 298

\* every pixel of a bitmap is fully transparent or fully opaque
AlphaBinary(f) ==
    \A q \in Pixels(f) : At(f, q[1], q[2]).a \in {0, 255}

\* C8: for a PNG request with bg=transparent, every pixel of the image sent
\* (a decodable PNG) has alpha 0 or 255.
C8_AlphaBinary ==
    (SentImage /\ bgColor(req).a = 0 /\ IsImage(resp.file)) =>
        AlphaBinary(resp.file)

\* the same when no step of the request returned an error: the cleaner
\* establishes alpha 0 or 255 and the later stages keep it
AlphaBinaryWhenNoStepFails ==
    (SentImage /\ bgColor(req).a = 0 /\ ~failed) =>
        /\ IsImage(resp.file)
        /\ AlphaBinary(resp.file)

\* C9: when a step of the render has failed, the response holds no image
\* bytes.
C9_NoImageAfterFailure ==
    (pc = "done" /\ failed) =>
        ~(resp.kind = "image" /\ resp.bytes \in {"all", "some"})

\* C10: a request with format=jpg whose steps all succeed is answered with
\* a JPEG (Content-Type image/jpeg).
C10_JpegResponse ==
    (pc = "done" /\ ToLower(req.format) = StrJpg /\ ~failed) =>
        /\ resp.kind = "image"
        /\ resp.contentType = "image/jpeg"

(***************************************************************************)
(* The target URL                                                          *)
(***************************************************************************)
RECURSIVE TrimLeft(_)
TrimLeft(s) == IF s # <<>> /\ Head(s) = " " THEN TrimLeft(Tail(s)) ELSE s
RECURSIVE TrimRight(_)
TrimRight(s) ==
    IF s # <<>> /\ s[Len(s)] = " " THEN TrimRight(SubSeq(s, 1, Len(s) - 1)) ELSE s
TrimSpace(s) == TrimRight(TrimLeft(s))

StrSchemeSep == <<":", "/", "/">>
StrHttp  == <<"h", "t", "t", "p">>
StrHttps == <<"h", "t", "t", "p", "s">>

\* the positions where "://" starts in s
SchemeSepAt(s) == {i \in 1..(Len(s) - 2) : SubSeq(s, i, i + 2) = StrSchemeSep}
HasScheme(s) == SchemeSepAt(s) # {}
FirstSep(s) == CHOOSE i \in SchemeSepAt(s) : \A j \in SchemeSepAt(s) : i <= j

\* the normalised URL: trimmed, https:// prepended when no scheme is present
NormalizedURL(s) ==
    LET t == TrimSpace(s)
    IN IF HasScheme(t) THEN t ELSE StrHttps \o StrSchemeSep \o t
UrlScheme(n) == SubSeq(n, 1, FirstSep(n) - 1)
UrlRest(n) == SubSeq(n, FirstSep(n) + 3, Len(n))
\* the host is what follows the separator up to the first "/"
HostIsEmpty(n) == UrlRest(n) = <<>> \/ Head(UrlRest(n)) = "/"

\* the URLs the rendering is to accept
AcceptableURL(s) ==
    /\ TrimSpace(s) # <<>>
    /\ LET n == NormalizedURL(s)
       IN /\ ToLower(UrlScheme(n)) \in {StrHttp, StrHttps}
          /\ ~HostIsEmpty(n)
          /\ Len(n) <= 4096

\* C11: the target URL is trimmed and given the scheme https:// when it has
\* none before it is encoded, and a request whose URL is absent, has another
\* scheme than http or https, has no host or is longer than 4096 characters
\* is answered with a bad request and no image.
C11_UrlNormalized ==
    pc = "done" =>
        IF AcceptableURL(req.url)
        THEN resp.kind \in {"image", "svg"} => encodedText(req) = NormalizedURL(req.url)
        ELSE resp.kind = "json" /\ resp.status = 400

\* a request for ftp://h has been answered with an image, every step succeeding
C11_FtpRendered ==
    /\ SentImage /\ ~failed
    /\ req.url = UrlFtp

(***************************************************************************)
(* The vector output                                                       *)
(***************************************************************************)
\* the SVG document has been written and the extraction file is still there
SVGWritten == pc = "removeMatrix" /\ resp.kind = "svg"

\* the true cells of the matrix: the library draws one pixel a module, dark
\* for a true cell
DarkModules(f) == {q \in Pixels(f) : At(f, q[1], q[2]).r < 128}

CircleElements(doc) == {i \in DOMAIN doc.elements : doc.elements[i].tag = "circle"}

\* C12: an SVG emitted for qrShape=circle without a centre logo holds as many
\* <circle> elements as the module matrix has true cells.
C12_OneCirclePerDarkModule ==
    (SVGWritten /\ req.qrShape = "circle" /\ req.centerLogo # "true") =>
        Cardinality(CircleElements(resp.doc)) = Cardinality(DarkModules(file))

\* a circle document of a 21-module matrix with its circles has been written
C12_Witness ==
    /\ SVGWritten /\ req.qrShape = "circle" /\ req.centerLogo = "false"
    /\ file.w = 21
    /\ Cardinality(CircleElements(resp.doc)) > 100
    /\ Cardinality(CircleElements(resp.doc)) < 21 * 21

\* the QR body of side t sits in the canvas with the margin m on all four
\* sides and the primitive of every true cell covers exactly its share of it
TilesExactly(doc, f, t, m) ==
    /\ doc.totalSize = t + 2 * m
    /\ \A q \in DarkModules(f) :
          \E i \in DOMAIN doc.elements :
             LET e == doc.elements[i]
                 side == IF e.tag = "circle" THEN 2 * e.w ELSE e.w
                 left == IF e.tag = "circle" THEN e.x - e.w ELSE e.x
                 top  == IF e.tag = "circle" THEN e.y - e.h ELSE e.y
             IN /\ e.tag \in {"rect", "circle"}
                /\ side * f.w = t
                /\ left = m + q[1] * side
                /\ top  = m + q[2] * side

\* paddingPixels + framePixels of the vector canvas, as the spec states them
SVGMargin(r) ==
    (targetSize(r.size) * 7) \div 100
      + (IF frame(r) = FrameNone THEN 0
         ELSE (targetSize(r.size) * frameWidthPercent(frame(r))) \div 100)

\* C13: in an emitted SVG, dimension x moduleSize equals targetSize (400 for
\* a preview, 2000 for a download): the module primitives tile the QR area
\* exactly, and the canvas of side targetSize + 2 x paddingPixels +
\* 2 x framePixels has equal margins on the four sides of the QR body.
C13_ModulesTile ==
    (SVGWritten /\ req.qrShape = "rectangle") =>
        TilesExactly(resp.doc, file, targetSize(req.size), SVGMargin(req))

\* a preview document of a 21-module matrix has been written: its modules
\* are 19 units wide and the QR body is 399 units, not 400
C13_Scenario399 ==
    /\ SVGWritten /\ req.qrShape = "rectangle" /\ req.size = "preview"
    /\ file.w = 21
    /\ \E i \in DOMAIN resp.doc.elements :
          resp.doc.elements[i].tag = "rect" /\ resp.doc.elements[i].w = 19

\* the same for the matrices whose dimension divides the target size
TilesWhenDimensionDivides ==
    (SVGWritten /\ req.qrShape = "rectangle" /\ targetSize(req.size) % file.w = 0) =>
        TilesExactly(resp.doc, file, targetSize(req.size), SVGMargin(req))

(***************************************************************************)
(* interpolateGradientColor on its own: every triple of stops from a small *)
(* palette, t = num/den on both sides of 0, 1/2 and 1                     *)
(***************************************************************************)
MaxDen == 4     \* t has the denominators 1..MaxDen

GradientStops ==
    {Black, White, Gray, Red, Transparent, RGBA(1, 127, 254, 255), RGBA(200, 100, 0, 255)}

InitGradient ==
    /\ pc = "interpolate"
    /\ arg \in UNION {[num : (-2) .. (den + 2), den : {den},
                       gradientStart : GradientStops,
                       gradientMiddle : GradientStops,
                       gradientEnd : GradientStops] : den \in 1..MaxDen}
    /\ ret = Null
    /\ NoRequest

Interpolate ==
    /\ pc = "interpolate"
    /\ ret' = interpolateGradientColor(arg.num, arg.den, arg.gradientStart,
                                       arg.gradientMiddle, arg.gradientEnd)
    /\ pc' = "interpolated"
    /\ UNCHANGED <<handlerVars, arg>>

NextGradient == Interpolate

SpecGradient == InitGradient /\ [][NextGradient]_vars

\* the stop with its three channels kept and alpha 255
OpaqueStop(c) == RGBA(c.r, c.g, c.b, 255)

\* C14: interpolateGradientColor returns stop0 at t = 0, stop1 at t = 0.5 and
\* stop2 at t = 1, each channel exact and alpha 255, and gives the t = 0
\* result for every t < 0 and the t = 1 result for every t > 1.
C14_GradientStops ==
    pc = "interpolated" =>
        /\ arg.num <= 0 => ret = OpaqueStop(arg.gradientStart)
        /\ 2 * arg.num = arg.den => ret = OpaqueStop(arg.gradientMiddle)
        /\ arg.num >= arg.den => ret = OpaqueStop(arg.gradientEnd)

\* t = 5/4 has been clamped: three different stops, the result is the last
C14_Witness ==
    /\ pc = "interpolated"
    /\ arg.num = 5 /\ arg.den = 4
    /\ arg.gradientStart = Black /\ arg.gradientMiddle = Gray /\ arg.gradientEnd = Red
    /\ ret = Red

(***************************************************************************)
(* Malformed parameters                                                    *)
(***************************************************************************)
\* a well-formed colour parameter: six hex digits, with or without '#', or
\* the word transparent
IsColorParam(s) ==
    \/ IsSixHex(s)
    \/ (Len(s) = 7 /\ s[1] = "#" /\ IsSixHex(SubSeq(s, 2, 7)))
    \/ IsTransparentWord(s)

KnownShapes == {"rectangle", "circle", "liquid", "chain", "hstripe", "vstripe"}
KnownPatterns == {"simple", "double", "dashed", "dotted", "irregular", "diagonal", "grid"}
KnownFormats == {StrPng, StrSvg}

\* the band pixels of a framed file
BandPixels(f) == {q \in Pixels(f) : isFrameArea(f, q[1], q[2])}

\* malformed parameters resolve to the documented defaults
ResolvedToDefaults ==
    /\ ~IsColorParam(req.bg) => bgColor(req) = White
    /\ (~useGradient(req) /\ ~IsColorParam(req.fg)) => fgColor(req) = Black
    /\ (useGradient(req) /\ ~IsColorParam(req.gradientStart)) => gradientStart(req) = Black
    /\ (useGradient(req) /\ ~IsColorParam(req.gradientMiddle)) => gradientMiddle(req) = Gray
    /\ (useGradient(req) /\ ~IsColorParam(req.gradientEnd)) => gradientEnd(req) = Red
    /\ (req.borderColor # <<>> /\ ~IsColorParam(req.borderColor)) => borderColor(req) = Black
    /\ ToLower(req.format) \notin KnownFormats => Format(req) = StrPng
    /\ (pc = "cleanup" /\ req.qrShape \notin KnownShapes) => file.shape = "rectangle"
    /\ (SVGWritten /\ req.qrShape \notin KnownShapes /\ req.centerLogo # "true") =>
           CircleElements(resp.doc) = {}
    /\ (pc = "finalScale" /\ ~failed /\ file.kind = "frame"
          /\ req.borderPattern \notin KnownPatterns) =>
           \A q \in BandPixels(file) :
              At(file, q[1], q[2]) = At([file EXCEPT !.pattern = "simple"], q[1], q[2])

\* C15: no malformed colour, shape, frame or format parameter produces an
\* error response: an error is answered only when the url is absent or a
\* step of the rendering itself fails, and a malformed parameter is
\* replaced by its default (default colour, rectangle, simple, png).
C15_NoParameterError ==
    /\ (pc = "done" /\ resp.kind = "json") => (req.url = <<>> \/ failed)
    /\ (pc = "done" /\ ~failed /\ req.url # <<>>) =>
           resp.kind = (IF Format(req) = StrSvg THEN "svg" ELSE "image")
    /\ ResolvedToDefaults

\* a request whose colour, shape, frame and format parameters are all
\* malformed has been answered with a framed image, no step failing
C15_Witness ==
    /\ SentImage /\ ~failed
    /\ req.format = StrBmp /\ req.bg = StrGarbage /\ req.fg = StrGarbage
    /\ req.qrShape = "blob" /\ req.cornerStyle = "wavy" /\ req.borderPattern = "zigzag"
    /\ resp.file.kind = "frame" /\ resp.file.fw = 1 /\ resp.file.w = 47

(***************************************************************************)
(* ensureMinimumQRSize on its own                                          *)
(***************************************************************************)
MaxMinSize == 16    \* bitmaps and minimum sizes of 1..MaxMinSize pixels

InitMinimum ==
    /\ pc = "ensureMinimum"
    /\ arg \in UNION {[img : {Bitmap(w, h, 2, s, Black, White) :
                                 h \in {w, w \div 2 + 1}, s \in 0..MaxSeed},
                       minSize : 1..MaxMinSize] : w \in 1..MaxMinSize}
    /\ ret = Null
    /\ NoRequest

EnsureMinimum ==
    /\ pc = "ensureMinimum"
    /\ \E io \in IOOutcomes : ret' = ensureMinimumQRSize(arg.img, arg.minSize, io)
    /\ pc' = "ensured"
    /\ UNCHANGED <<handlerVars, arg>>

NextMinimum == EnsureMinimum

SpecMinimum == InitMinimum /\ [][NextMinimum]_vars

MinimumWithinOnePixel ==
    (pc = "ensured" /\ ~ret.err) =>
        IF arg.img.w < arg.minSize
        THEN ret.file.w \in {arg.minSize - 1, arg.minSize} /\ ret.file.h = ret.file.w
        ELSE ret.file = arg.img

(***************************************************************************)
(* The frame step of generatePNGQR                                         *)
(***************************************************************************)
\* the frame kind is none: no corner style, or a straight frame of pattern none
FrameKindNone(r) ==
    r.cornerStyle = "none" \/ (r.cornerStyle # "rounded" /\ r.borderPattern = "none")

Framed(f) == f.kind = "frame"

\* C17: the frame step is skipped when the frame kind is none; otherwise the
\* frame is floor(originalSize x frameWidthPercent / 100) pixels wide, with
\* frameWidthPercent 4 for a straight and 6 for a rounded frame, and the
\* canvas side grows by exactly twice that.
C17_FrameStep ==
    pc = "finalScale" =>
        IF FrameKindNone(req) THEN ~Framed(file)
        ELSE /\ ~failed => Framed(file)
             /\ Framed(file) =>
                  /\ file.fw = (originalSize * (IF req.cornerStyle = "rounded" THEN 6 ELSE 4)) \div 100
                  /\ file.w = file.src.w + 2 * file.fw
                  /\ file.h = file.src.h + 2 * file.fw

\* a rounded frame on a base of 32 pixels (6 percent = 1.92) is 1 pixel wide
C17_Witness ==
    /\ pc = "finalScale" /\ ~failed
    /\ req.cornerStyle = "rounded" /\ originalSize = 32
    /\ Framed(file) /\ file.fw = 1 /\ file.w = file.src.w + 2

\* a straight frame of pattern none has been skipped
C17_WitnessSkipped ==
    /\ pc = "finalScale" /\ ~failed
    /\ req.cornerStyle = "square" /\ req.borderPattern = "none"
    /\ file.kind = "pad"

(***************************************************************************)
(* The band widths of the double pattern on their own.  The switch runs    *)
(* for band pixels only, so for frame widths of 1 pixel and more.          *)
(***************************************************************************)
MaxFrameWidth == 60     \* frames of 1..MaxFrameWidth pixels

InitDouble ==
    /\ pc = "double"
    /\ arg \in [frameWidth : 1..MaxFrameWidth, rounded : BOOLEAN]
    /\ ret = Null
    /\ NoRequest

SplitDouble ==
    /\ pc = "double"
    /\ ret' = DoubleBands(arg.frameWidth, arg.rounded)
    /\ pc' = "split"
    /\ UNCHANGED <<handlerVars, arg>>

NextDouble == SplitDouble

SpecDouble == InitDouble /\ [][NextDouble]_vars

BandsFill(b, frameWidth) ==
    /\ b.outer >= 1 /\ b.gap >= 1 /\ b.inner >= 1
    /\ b.outer + b.gap + b.inner = frameWidth

C18_ScenarioThree ==
    /\ pc = "split"
    /\ arg.frameWidth = 3 /\ ~arg.rounded
    /\ ret = [outer |-> 2, gap |-> 1, inner |-> 1]

EdgePixel(f, side, t, d) ==
    CASE side = "top"    -> <<t, d>>
      [] side = "bottom" -> <<t, f.h - 1 - d>>
      [] side = "left"   -> <<d, t>>
      [] side = "right"  -> <<f.w - 1 - d, t>>

\* the positions along an edge between the rounded outer corners
StraightPart(f) == outerRadius(f.fw) .. (f.w - 1 - outerRadius(f.fw))

\* walking inwards across the band at position t: a stroke of the colour c,
\* then a gap, then a second stroke of the colour c
TwoStrokesAt(f, side, t, c) ==
    \E a \in 0..(f.fw - 1) : \E b \in (a + 1)..(f.fw - 1) : \E e \in (b + 1)..(f.fw - 1) :
        /\ At(f, EdgePixel(f, side, t, a)[1], EdgePixel(f, side, t, a)[2]) = c
        /\ At(f, EdgePixel(f, side, t, b)[1], EdgePixel(f, side, t, b)[2]) # c
        /\ At(f, EdgePixel(f, side, t, e)[1], EdgePixel(f, side, t, e)[2]) = c

\* the number of pixels of the colour c across the band at position t
StrokePixelsAt(f, side, t, c) ==
    Cardinality({d \in 0..(f.fw - 1) :
        At(f, EdgePixel(f, side, t, d)[1], EdgePixel(f, side, t, d)[2]) = c})

RoundedDoubleWritten ==
    /\ pc = "framed" /\ ~ret.err
    /\ arg.frameType = [rounded |-> TRUE, pattern |-> "double"]
    /\ ~arg.paint.useGradient /\ arg.paint.frameColor = Black

\* C19: for a rounded double frame of 4 pixels or more, the written image
\* (after the bands are painted and the rounded carving is applied) shows,
\* along the straight part of every edge, two strokes of the frame colour
\* separated by a gap: an outer and an inner stroke of at least one pixel.
C19_TwoStrokesAfterCarving ==
    (RoundedDoubleWritten /\ ret.file.fw >= 4) =>
        \A side \in {"top", "bottom", "left", "right"} :
            \A t \in StraightPart(ret.file) :
                TwoStrokesAt(ret.file, side, t, Black)

\* a rounded double frame of 4 pixels (outer 2, gap 1, inner 1) under a cut
\* of 2 pixels: across the top edge only the outer stroke is left
C19_InnerStrokeCarved ==
    /\ RoundedDoubleWritten /\ arg.bgColor = White
    /\ ret.file.fw = 4 /\ ret.file.w = 83
    /\ DoubleBands(4, TRUE) = [outer |-> 2, gap |-> 1, inner |-> 1]
    /\ cutWidth(4) = 2
    /\ At(ret.file, 41, 0) = Black /\ At(ret.file, 41, 1) = Black
    /\ At(ret.file, 41, 2) = White /\ At(ret.file, 41, 3) = White

\* whenever the inner stroke is wider than the cut, both strokes are there
TwoStrokesWhenInnerExceedsCut ==
    (RoundedDoubleWritten /\ ret.file.fw >= 4
        /\ DoubleBands(ret.file.fw, TRUE).inner > cutWidth(ret.file.fw)) =>
        \A side \in {"top", "bottom", "left", "right"} :
            \A t \in StraightPart(ret.file) :
                /\ TwoStrokesAt(ret.file, side, t, Black)
                /\ StrokePixelsAt(ret.file, side, t, Black)
                      = DoubleBands(ret.file.fw, TRUE).outer
                        + DoubleBands(ret.file.fw, TRUE).inner - cutWidth(ret.file.fw)

(***************************************************************************)
(* The diagonal pattern on its own (qr.go 1509-1526): one band pixel of a  *)
(* frame of 1..MaxFrameWidth pixels.                                       *)
(***************************************************************************)
MaxCoord == 15     \* pixel coordinates 0..MaxCoord

InitDiagonal ==
    /\ pc = "diagonal"
    /\ arg \in [frameWidth : 1..MaxFrameWidth, x : 0..MaxCoord, y : 0..MaxCoord]
    /\ ret = Null
    /\ NoRequest

PaintDiagonal ==
    /\ pc = "diagonal"
    /\ ret' = DiagonalPainted([fw |-> arg.frameWidth], arg.x, arg.y)
    /\ pc' = "painted"
    /\ UNCHANGED <<handlerVars, arg>>

NextDiagonal == PaintDiagonal

SpecDiagonal == InitDiagonal /\ [][NextDiagonal]_vars

\* C20 as stated: a band pixel (x, y) is painted exactly when
\* (x + y) mod spacing < thickness, with spacing = max(2, frameWidth / 2) and
\* thickness = max(1, min(frameWidth / 5, spacing - 1)), for every frame width.
C20_DiagonalAsStated ==
    pc = "painted" =>
        LET spacing == IF arg.frameWidth \div 2 < 2 THEN 2 ELSE arg.frameWidth \div 2
            least   == IF arg.frameWidth \div 5 < spacing - 1
                       THEN arg.frameWidth \div 5 ELSE spacing - 1
            thick   == IF least < 1 THEN 1 ELSE least
        IN ret = ((arg.x + arg.y) % spacing < thick)

\* C20 (as amended): a band pixel (x, y) is painted exactly when
\* (x + y) mod spacing < thickness, with spacing = max(2, frameWidth / 2) and
\* thickness = max(1, min(max(2, frameWidth / 5), spacing - 1)) (integer
\* division), for every frame width: the stroke is 2 pixels thick wherever
\* the spacing leaves room for it.
C20_DiagonalThickened ==
    pc = "painted" =>
        LET spacing == IF arg.frameWidth \div 2 < 2 THEN 2 ELSE arg.frameWidth \div 2
            wanted  == IF arg.frameWidth \div 5 < 2 THEN 2 ELSE arg.frameWidth \div 5
            least   == IF wanted < spacing - 1 THEN wanted ELSE spacing - 1
            thick   == IF least < 1 THEN 1 ELSE least
        IN ret = ((arg.x + arg.y) % spacing < thick)

\* a frame of 6 pixels: spacing 3, thickness 2, and the pixel (1, 0) is painted
C20_Witness ==
    /\ pc = "painted"
    /\ arg.frameWidth = 6 /\ arg.x = 1 /\ arg.y = 0
    /\ lineSpacing(6) = 3 /\ thickness(6) = 2
    /\ ret = TRUE

\* the written image of a straight diagonal frame in one colour carries the
\* frame colour exactly on the painted band pixels
DiagonalBandWritten ==
    (/\ pc = "framed" /\ ~ret.err
     /\ arg.frameType = [rounded |-> FALSE, pattern |-> "diagonal"]
     /\ ~arg.paint.useGradient /\ arg.paint.frameColor = Black) =>
        \A q \in BandOf(ret.file) :
            (At(ret.file, q[1], q[2]) = Black) <=> DiagonalPainted(ret.file, q[1], q[2])

(***************************************************************************)
(* The dashed pattern in the written image (qr.go 1374-1402).              *)
(***************************************************************************)
StraightWritten(pattern) ==
    /\ pc = "framed" /\ ~ret.err
    /\ arg.frameType = [rounded |-> FALSE, pattern |-> pattern]
    /\ ~arg.paint.useGradient /\ arg.paint.frameColor = Black

\* C21: in the dashed pattern the four corner squares of side framePixels
\* are solid frame colour, and on each of the four straight edges the pixel
\* at distance d from the corner square is painted exactly when
\* d mod (dashLength + dashLength / 2) < dashLength, with
\* dashLength = max(6, 3 x framePixels).
C21_DashedPattern ==
    StraightWritten("dashed") =>
        LET f     == ret.file
            fw    == f.fw
            dash  == IF 3 * fw < 6 THEN 6 ELSE 3 * fw
            total == dash + dash \div 2
            Painted(x, y) == At(f, x, y) = Black
        IN \A q \in BandOf(f) :
              LET x == q[1]
                  y == q[2]
                  inX == x < fw \/ x >= f.w - fw
                  inY == y < fw \/ y >= f.h - fw
              IN IF inX /\ inY THEN Painted(x, y)
                 ELSE IF inY THEN Painted(x, y) <=> ((x - fw) % total < dash)
                 ELSE Painted(x, y) <=> ((y - fw) % total < dash)

\* a straight dashed frame of 3 pixels on a white background: dashes of 9
\* pixels and gaps of 4, measured from the corner square
C21_Witness ==
    /\ StraightWritten("dashed") /\ arg.bgColor = White
    /\ ret.file.fw = 3 /\ ret.file.w = 100
    /\ At(ret.file, 0, 0) = Black /\ At(ret.file, 99, 99) = Black
    /\ At(ret.file, 11, 0) = Black /\ At(ret.file, 12, 0) # Black
    /\ At(ret.file, 15, 99) # Black /\ At(ret.file, 16, 99) = Black
    /\ At(ret.file, 0, 11) = Black /\ At(ret.file, 99, 12) # Black

(***************************************************************************)
(* The dotted pattern in the written image (qr.go 1330-1373).              *)
(***************************************************************************)
\* the distance of a band pixel from the outer edge of its band, and its
\* position along that edge; the rows of the top and bottom bands run over
\* the corners (qr.go 1345, 1359)
AcrossBand(f, x, y) ==
    IF y < f.fw THEN y
    ELSE IF y >= f.h - f.fw THEN f.h - 1 - y
    ELSE IF x < f.fw THEN x ELSE f.w - 1 - x

AlongBand(f, x, y) == IF y < f.fw \/ y >= f.h - f.fw THEN x ELSE y

\* the squared distance of the band pixel (x, y) from the nearest hole
\* centre, the centres lying mid pixels from the outer edge, radius pixels
\* from the start of every period of spacing pixels
HoleDistance2(f, x, y, mid, spacing, radius) ==
    LET a  == AlongBand(f, x, y)
        d  == AcrossBand(f, x, y)
        c  == (a \div spacing) * spacing + radius
    IN (a - c) * (a - c) + (d - mid) * (d - mid)

\* C22: in the dotted pattern every band pixel is frame colour except those
\* inside circular holes of radius max(2, framePixels / 3) spaced
\* max(6, framePixels) apart, and the hole centres lie at one and the same
\* distance from the band's outer edge on the top, bottom, left and right
\* edges.  (A pixel on the circle itself may be either.)
C22_DottedHolesOnMidline ==
    StraightWritten("dotted") =>
        LET f       == ret.file
            spacing == IF f.fw < 6 THEN 6 ELSE f.fw
            radius  == IF f.fw \div 3 < 2 THEN 2 ELSE f.fw \div 3
        IN \E mid \in 0..f.fw :
              \A q \in BandOf(f) :
                 LET dist2 == HoleDistance2(f, q[1], q[2], mid, spacing, radius)
                 IN /\ dist2 < radius * radius => At(f, q[1], q[2]) # Black
                    /\ At(f, q[1], q[2]) # Black => dist2 <= radius * radius

\* a straight dotted frame of 4 pixels (radius 2): on the top edge the hole
\* centre is 2 pixels from the outer edge, on the bottom edge 1 pixel, and
\* the mirrored pixels (3, 0) and (3, 121) differ
C22_HolesOffCentre ==
    /\ StraightWritten("dotted") /\ arg.bgColor = White
    /\ ret.file.fw = 4 /\ ret.file.h = 122
    /\ At(ret.file, 3, 0) = Black /\ At(ret.file, 3, 3) = White
    /\ At(ret.file, 3, 121) = White /\ At(ret.file, 3, 118) = Black
    /\ At(ret.file, 0, 9) = Black /\ At(ret.file, 121, 9) = White

\* what the code draws: the centres are framePixels / 2 from the outer edge
\* on the top and left edges, framePixels / 2 - 1 on the bottom and right
DottedHolesAsDrawn ==
    StraightWritten("dotted") =>
        LET f       == ret.file
            spacing == IF f.fw < 6 THEN 6 ELSE f.fw
            radius  == IF f.fw \div 3 < 2 THEN 2 ELSE f.fw \div 3
        IN \A q \in BandOf(f) :
              LET x     == q[1]
                  y     == q[2]
                  far   == IF y < f.fw \/ y >= f.h - f.fw
                           THEN y >= f.h - f.fw ELSE x >= f.w - f.fw
                  mid   == IF far THEN f.fw \div 2 - 1 ELSE f.fw \div 2
                  dist2 == HoleDistance2(f, x, y, mid, spacing, radius)
              IN /\ dist2 < radius * radius => At(f, x, y) # Black
                 /\ At(f, x, y) # Black => dist2 <= radius * radius

(***************************************************************************)
(* The colour of the band where no stroke is painted: the fill the framed  *)
(* image starts with (qr.go 1204-1211, fed by qr.go 340-344), the holes    *)
(* and gaps of the patterns, and the notch carved by                       *)
(* applySimpleRoundedFrame (qr.go 1678-1683).                              *)
(***************************************************************************)
\* the band pixels of the written image that carry no stroke; the outer
\* corners a rounded frame clears are not among them
NotStroke(f) ==
    {q \in BandOf(f) : /\ At(f, q[1], q[2]) # Black
                       /\ (f.rounded => InsideOuter(f, q[1], q[2]))}

OneColourWritten ==
    /\ pc = "framed" /\ ~ret.err
    /\ ~arg.paint.useGradient /\ arg.paint.frameColor = Black

\* C23: the band pixels that are not stroke (pattern gaps, punched holes and
\* the notch carved for rounded frames) take the requested background
\* colour when the background is opaque, and are transparent when the
\* background alpha is 0.
C23_GapsTakeBackground ==
    OneColourWritten =>
        \A q \in NotStroke(ret.file) :
            At(ret.file, q[1], q[2])
                = IF arg.bgColor.a = 0 THEN Transparent ELSE arg.bgColor

\* a straight dashed frame of 3 pixels requested on a red background: the
\* gap between two dashes is white
C23_WhiteGapOnRed ==
    /\ OneColourWritten /\ arg.bgColor = Red
    /\ arg.frameType = [rounded |-> FALSE, pattern |-> "dashed"]
    /\ ret.file.fw = 3 /\ ret.file.w = 100
    /\ At(ret.file, 11, 0) = Black /\ At(ret.file, 12, 0) = White

\* what the code does: white under every opaque background
GapsWhiteOrTransparent ==
    OneColourWritten =>
        \A q \in NotStroke(ret.file) :
            At(ret.file, q[1], q[2])
                = IF arg.bgColor.a = 0 THEN Transparent ELSE White

(***************************************************************************)
(* The interior of the framed image (qr.go 1284-1290, 1549-1555,           *)
(* 1745-1751).                                                             *)
(***************************************************************************)
\* C24: the frame step never changes the interior: for every frame kind,
\* straight or rounded, the output is the input grown by frameWidth on every
\* side, and every pixel of the input bitmap appears unchanged in the output
\* at its position shifted by frameWidth; only the pixels within frameWidth
\* of a canvas edge are painted or cleared.
C24_InteriorUnchanged ==
    (pc = "framed" /\ ~ret.err) =>
        LET f == ret.file
        IN /\ f.w = arg.img.w + 2 * f.fw
           /\ f.h = arg.img.h + 2 * f.fw
           /\ \A q \in Pixels(arg.img) :
                 At(f, q[1] + f.fw, q[2] + f.fw) = At(arg.img, q[1], q[2])

\* a rounded double frame of 4 pixels around a 75-pixel bitmap: the band is
\* painted and carved, and the bitmap's corner pixels sit at (4, 4) and
\* (78, 78)
C24_Witness ==
    /\ pc = "framed" /\ ~ret.err
    /\ arg.frameType = [rounded |-> TRUE, pattern |-> "double"]
    /\ arg.bgColor = White /\ ~arg.paint.useGradient
    /\ arg.paint.frameColor = Black
    /\ arg.img.w = 75 /\ ret.file.fw = 4 /\ ret.file.w = 83
    /\ At(ret.file, 0, 0) = Transparent
    /\ At(ret.file, 41, 0) = Black /\ At(ret.file, 41, 3) = White
    /\ At(ret.file, 4, 4) = At(arg.img, 0, 0)
    /\ At(ret.file, 78, 78) = At(arg.img, 74, 74)
    /\ At(arg.img, 0, 0) # At(arg.img, 74, 74)

(***************************************************************************)
(* The temporary file at the end of a PNG render (qr.go 168-171, 238-248,  *)
(* 361-393).                                                               *)
(***************************************************************************)
PNGRenderDone == pc = "done" /\ req.url # <<>> /\ Format(req) # StrSvg

\* C25: on every termination path of a PNG render (success, writer creation
\* failure, save failure, missing or empty output file, open failure, send
\* failure) the request's temporary file no longer exists when the handler
\* returns.
C25_TempFileRemoved == PNGRenderDone => file = Null

\* qrc.Save has failed: the handler has answered 500 and the file that
\* standard.New created is still there
C25_LeftAfterSaveFailure ==
    /\ PNGRenderDone /\ failed
    /\ resp = JSONError(500)
    /\ file = Partial(0)

\* os.Open has failed at the sending: the handler has answered 500 and the
\* rendered image is still there
LeftAfterOpenFailure ==
    /\ PNGRenderDone /\ failed
    /\ resp = JSONError(500)
    /\ IsImage(file)

\* the file is removed on the paths that reach the deferred os.Remove
\* (qr.go 379) and when it is found empty (qr.go 368)
RemovedAfterSending ==
    (PNGRenderDone /\ resp.kind = "image") => file = Null

(***************************************************************************)
(* Two PNG requests served at once.  Each goroutine names its temporary    *)
(* file (qr.go 170, 649-655), has the encoder write it (qr.go 238-248),    *)
(* runs a stage that decodes the file and creates it again (e.g. qr.go     *)
(* 1128-1181), sends the file and removes it (qr.go 361-393).  Here pc, req *)
(* and resp hold one entry per request, arg the file names, file the       *)
(* directory os.TempDir() and ret the clock.  An image is told by the      *)
(* request whose data it encodes and the requests whose stages it went     *)
(* through.                                                                *)
(***************************************************************************)
Clients == {1, 2}

MaxClock  == 1      \* time.Now().UnixNano() reads 0..MaxClock
MaxRandom == 1      \* rand.Read yields 0..MaxRandom

FileNames == (0..MaxClock) \X (0..MaxRandom)

\* generateUniqueFilename (qr.go 649-655): the name is told by the
\* timestamp and the random bytes; prefix and extension are the same for
\* every PNG request
generateUniqueFilename(timestamp, randomBytes) == <<timestamp, randomBytes>>

\* A plausible slip: the random bytes are left out of the name.
generateUniqueFilenameNoRandom(timestamp, randomBytes) == <<timestamp, 0>>

InitConcurrent ==
    /\ pc = [i \in Clients |-> "generatePNGQR"]
    /\ req = [i \in Clients |-> Null]
    /\ arg = [i \in Clients |-> Null]
    /\ resp = [i \in Clients |-> Null]
    /\ file = [n \in FileNames |-> Null]
    /\ ret = 0
    /\ originalSize = 0
    /\ didPreviewPreScale = FALSE
    /\ failed = FALSE

\* tmpFile := filepath.Join(os.TempDir(), generateUniqueFilename(...))
\* (qr.go 170); the clock never runs backwards
NameFile(i) ==
    /\ pc[i] = "generatePNGQR"
    /\ \E timestamp \in ret..MaxClock, randomBytes \in 0..MaxRandom :
          /\ arg' = [arg EXCEPT ![i] = generateUniqueFilename(timestamp, randomBytes)]
          /\ ret' = timestamp
    /\ pc' = [pc EXCEPT ![i] = "save"]
    /\ UNCHANGED <<req, file, resp, originalSize, didPreviewPreScale, failed>>

\* standard.New and qrc.Save (qr.go 238-248) create the file, truncating
\* whatever the name held
SaveFile(i) ==
    /\ pc[i] = "save"
    /\ file' = [file EXCEPT ![arg[i]] = [data |-> i, stages |-> <<>>]]
    /\ pc' = [pc EXCEPT ![i] = "open"]
    /\ UNCHANGED <<req, arg, resp, ret, originalSize, didPreviewPreScale, failed>>

\* a stage opens and decodes the file (qr.go 1130-1139); when that fails
\* the stage is given up with a warning
OpenFile(i) ==
    /\ pc[i] = "open"
    /\ IF file[arg[i]] = Null
       THEN pc' = [pc EXCEPT ![i] = "send"] /\ UNCHANGED req
       ELSE /\ req' = [req EXCEPT ![i] = file[arg[i]]]
            /\ pc' = [pc EXCEPT ![i] = "create"]
    /\ UNCHANGED <<file, arg, resp, ret, originalSize, didPreviewPreScale, failed>>

\* the stage creates the file again and encodes its result (qr.go 1170-1178)
CreateFile(i) ==
    /\ pc[i] = "create"
    /\ file' = [file EXCEPT ![arg[i]] =
                   [data |-> req[i].data, stages |-> Append(req[i].stages, i)]]
    /\ pc' = [pc EXCEPT ![i] = "send"]
    /\ UNCHANGED <<req, arg, resp, ret, originalSize, didPreviewPreScale, failed>>

\* os.Stat, os.Open, io.Copy and the deferred os.Remove (qr.go 361-393)
SendFile(i) ==
    /\ pc[i] = "send"
    /\ IF file[arg[i]] = Null
       THEN resp' = [resp EXCEPT ![i] = JSONError(500)] /\ UNCHANGED file
       ELSE /\ resp' = [resp EXCEPT ![i] = PNGResponse(file[arg[i]], "all")]
            /\ file' = [file EXCEPT ![arg[i]] = Null]
    /\ pc' = [pc EXCEPT ![i] = "done"]
    /\ UNCHANGED <<req, arg, ret, originalSize, didPreviewPreScale, failed>>

NextConcurrent ==
    \E i \in Clients :
        \/ NameFile(i)
        \/ SaveFile(i)
        \/ OpenFile(i)
        \/ CreateFile(i)
        \/ SendFile(i)

SpecConcurrent == InitConcurrent /\ [][NextConcurrent]_vars

\* has request i named its temporary file
Named(i) == pc[i] # "generatePNGQR"

\* the response of request i when it is served alone
AloneResponse(i) == PNGResponse([data |-> i, stages |-> <<i>>], "all")

\* C26: render requests are independent under any interleaving: two
\* concurrent requests never read or write the same intermediate file, and
\* each request's response equals the response it produces when run alone.
C26_RequestsIndependent ==
    /\ (Named(1) /\ Named(2)) => arg[1] # arg[2]
    /\ \A i \in Clients : pc[i] = "done" => resp[i] = AloneResponse(i)

\* both requests were given the same file name, and request 1 has sent the
\* image of request 2
C26_SentTheOtherImage ==
    /\ pc[1] = "done" /\ pc[2] = "done"
    /\ arg[1] = arg[2]
    /\ resp[1].kind = "image" /\ resp[1].file.data = 2

\* with different names each request is answered as if alone
IndependentWhenNamesDiffer ==
    \A i \in Clients :
        (pc[i] = "done" /\ (Named(1) /\ Named(2) => arg[1] # arg[2]))
            => resp[i] = AloneResponse(i)

(***************************************************************************)
(* Where a preview is scaled (qr.go 291-316, 350-359).  The file at the    *)
(* sending tells its history: each stage's bitmap keeps the bitmap it was  *)
(* computed from.                                                          *)
(***************************************************************************)
RECURSIVE ResizeLayers(_)
\* how many times the bitmap f has been scaled
ResizeLayers(f) ==
    IF f.kind = "base" THEN 0
    ELSE (IF f.kind = "resize" THEN 1 ELSE 0) + ResizeLayers(f.src)

RECURSIVE Composited(_)
\* has the bitmap f been padded or framed
Composited(f) ==
    IF f.kind = "base" THEN FALSE
    ELSE f.kind \in {"pad", "frame"} \/ Composited(f.src)

RECURSIVE ScaledComposite(_)
\* has a padded or framed bitmap been scaled on the way to f
ScaledComposite(f) ==
    IF f.kind = "base" THEN FALSE
    ELSE (f.kind = "resize" /\ Composited(f.src)) \/ ScaledComposite(f.src)

PreviewComposed ==
    /\ pc = "send" /\ req.size = "preview" /\ req.previewSize > 0
    /\ IsImage(file)

ScaledAfterFailedPreScale ==
    /\ PreviewComposed /\ failed /\ ~didPreviewPreScale
    /\ req.previewSize = 300
    /\ file.kind = "resize" /\ file.w = 300 /\ file.src.kind = "frame"
    /\ ResizeLayers(file) = 1

\* the pre-scale was not applied (the base already has the wanted size) and
\* the composited image was scaled at the end
ScaledWithoutPreScale ==
    /\ PreviewComposed /\ ~failed /\ ~didPreviewPreScale
    /\ file.kind = "resize" /\ file.w = req.previewSize
    /\ file.src.kind \in {"pad", "frame"}

(***************************************************************************)
(* The stages of the raster pipeline one after the other on a square       *)
(* bitmap, in the order generatePNGQR calls them (qr.go 275-348), each     *)
(* with inputs of its own.                                                 *)
(***************************************************************************)
MaxSquareSide   == 5    \* base bitmaps of 1..MaxSquareSide pixels
MaxSquareMin    == 8    \* minimum sizes 0..MaxSquareMin
MaxSquareTarget == 6    \* exact sizes 0..MaxSquareTarget
MaxSquareFrame  == 2    \* frame widths 0..MaxSquareFrame

InitSquare ==
    /\ pc = "ensureMinimumQRSize"
    /\ arg \in [side : 1..MaxSquareSide, minSize : 0..MaxSquareMin,
                targetSize : 0..MaxSquareTarget, rounded : BOOLEAN,
                frameWidth : 0..MaxSquareFrame]
    /\ ret = [file |-> Bitmap(arg.side, arg.side, 1, 0, Black, White), err |-> FALSE]
    /\ NoRequest

SquareMinimum ==
    /\ pc = "ensureMinimumQRSize"
    /\ \E io \in IOOutcomes : ret' = ensureMinimumQRSize(ret.file, arg.minSize, io)
    /\ pc' = "ensureExactQRSize"
    /\ UNCHANGED <<handlerVars, arg>>

SquareExact ==
    /\ pc = "ensureExactQRSize"
    /\ \E io \in IOOutcomes : ret' = ensureExactQRSize(ret.file, arg.targetSize, io)
    /\ pc' = "addLogoToOriginalQR"
    /\ UNCHANGED <<handlerVars, arg>>

SquareLogo ==
    /\ pc = "addLogoToOriginalQR"
    /\ \E io \in IOOutcomes, logo \in Logos :
          ret' = addLogoToOriginalQR(ret.file, Black, White, ReadWidth(ret.file, 0),
                                     FALSE, Black, Gray, Red, "default", "", logo, io)
    /\ pc' = "addAbsolutePaddingToQRFile"
    /\ UNCHANGED <<handlerVars, arg>>

SquarePadding ==
    /\ pc = "addAbsolutePaddingToQRFile"
    /\ \E io \in IOOutcomes :
          ret' = addAbsolutePaddingToQRFile(ret.file, border, ReadWidth(ret.file, 0),
                                            White, io)
    /\ pc' = "addFrameToQRFile"
    /\ UNCHANGED <<handlerVars, arg>>

SquareFrame ==
    /\ pc = "addFrameToQRFile"
    /\ \E io \in IOOutcomes :
          ret' = addFrameToQRFile(ret.file, [rounded |-> arg.rounded, pattern |-> "simple"],
                                  arg.frameWidth, White, Black, FALSE, Black, Gray, Red, io)
    /\ pc' = "composed"
    /\ UNCHANGED <<handlerVars, arg>>

NextSquare ==
    \/ SquareMinimum
    \/ SquareExact
    \/ SquareLogo
    \/ SquarePadding
    \/ SquareFrame

SpecSquare == InitSquare /\ [][NextSquare]_vars

\* C28: the bitmap is square after every stage of the raster pipeline:
\* starting from a square base bitmap, ensureMinimumQRSize,
\* ensureExactQRSize, addLogoToOriginalQR, addAbsolutePaddingToQRFile and
\* addFrameToQRFile each leave the width equal to the height.
C28_SquareAfterEveryStage ==
    IsImage(ret.file) => ret.file.w = ret.file.h

\* a 3-pixel bitmap brought to 8 pixels, then to 6, given the logo, padded
\* and framed by 2 pixels: each stage has written the file
C28_Witness ==
    /\ pc = "composed" /\ ~ret.err
    /\ arg.side = 3 /\ arg.minSize = 8 /\ arg.targetSize = 6 /\ arg.frameWidth = 2
    /\ ret.file.kind = "frame" /\ ret.file.w = 10 /\ ret.file.h = 10
    /\ ret.file.src.kind = "pad"
    /\ ret.file.src.src.kind = "logo"
    /\ ret.file.src.src.src.kind = "resize" /\ ret.file.src.src.src.w = 6
    /\ ret.file.src.src.src.src.kind = "resize"
    /\ ret.file.src.src.src.src.src.kind = "base"

(***************************************************************************)
(* What is left of a rounded simple frame after the carving (qr.go 70-76,  *)
(* 294-316, 338-341, 1731-1743).                                           *)
(***************************************************************************)
\* the file holds a rounded simple frame painted in one opaque colour that
\* is not the clear colour
RoundedSimpleFramed ==
    /\ IsImage(file) /\ file.kind = "frame"
    /\ file.rounded /\ file.pattern = "simple"
    /\ ~file.useGradient /\ file.frameColor = Black

\* the stroke pixels across the middle of the top edge
StrokeAcrossTop(f) ==
    {d \in 0..(f.fw - 1) : At(f, f.w \div 2, d) = f.frameColor}

\* C29: for a rounded simple frame of any width fw reachable in the
\* pipeline, the stroke that remains after the carving is not empty: with
\* cut = max(2, ceil(fw x 0.33)) the remaining thickness fw - cut along a
\* straight edge is at least 1, and the image shows the frame.
C29_RoundedStrokeRemains ==
    RoundedSimpleFramed =>
        LET fw  == file.fw
            cut == IF (33 * fw + 99) \div 100 < 2 THEN 2 ELSE (33 * fw + 99) \div 100
        IN /\ fw - cut >= 1
           /\ StrokeAcrossTop(file) # {}

\* a preview of 40 pixels with a rounded simple frame: the base is 32 pixels
\* wide, the frame 1 pixel, the cut 2 pixels, and the band is cleared
C29_FrameCarvedAway ==
    /\ pc = "finalScale" /\ ~failed /\ RoundedSimpleFramed
    /\ req.previewSize = 40 /\ originalSize = 32
    /\ file.fw = 1 /\ cutWidth(file.fw) = 2
    /\ StrokeAcrossTop(file) = {}
    /\ At(file, file.w \div 2, 0) = innerClear(file.bg)

\* from 3 pixels on a stroke of fw - cut pixels is left
StrokeRemainsFromThree ==
    (RoundedSimpleFramed /\ file.fw >= 3) =>
        /\ file.fw - cutWidth(file.fw) >= 1
        /\ Cardinality(StrokeAcrossTop(file)) = file.fw - cutWidth(file.fw)


(***************************************************************************)
(* lerpColor on its own: every pair of colours of the palette, t = num/den *)
(* in [0, 1]                                                               *)
(***************************************************************************)
MaxLerpDen == 4     \* t has the denominators 1..MaxLerpDen

InitLerp ==
    /\ pc = "lerp"
    /\ arg \in UNION {[num : 0 .. den, den : {den},
                       color1 : GradientStops,
                       color2 : GradientStops] : den \in 1..MaxLerpDen}
    /\ ret = Null
    /\ NoRequest

Lerp ==
    /\ pc = "lerp"
    /\ ret' = lerpColor(arg.color1, arg.color2, arg.num, arg.den)
    /\ pc' = "lerped"
    /\ UNCHANGED <<handlerVars, arg>>

NextLerp == Lerp

SpecLerp == InitLerp /\ [][NextLerp]_vars

\* v lies between a and b, whichever of the two is the larger
Between(v, a, b) == (a <= v /\ v <= b) \/ (b <= v /\ v <= a)

\* C30: for every pair of colours and every t in [0, 1], each of the R, G and
\* B channels lerpColor returns lies between the same channel of the two
\* inputs, so the conversion to 8 bits never wraps, and the alpha is 255.
C30_LerpBetweenInputs ==
    pc = "lerped" =>
        /\ Between(ret.r, arg.color1.r, arg.color2.r)
        /\ Between(ret.g, arg.color1.g, arg.color2.g)
        /\ Between(ret.b, arg.color1.b, arg.color2.b)
        /\ ret.r \in 0..255 /\ ret.g \in 0..255 /\ ret.b \in 0..255
        /\ ret.a = 255

\* t = 1/3 between two colours whose channels rise, fall and come from a
\* transparent input: the falling channel is truncated, the alpha is 255
C30_Witness ==
    /\ pc = "lerped"
    /\ arg.num = 1 /\ arg.den = 3
    /\ arg.color1 = RGBA(200, 100, 0, 255) /\ arg.color2 = Transparent
    /\ ret = RGBA(133, 66, 0, 255)

====
